---- MODULE Spec2Model ----
(***************************************************************************)
(* Model of the notetaking-AI backend's conversational pipeline:           *)
(*   - ChatbotService.process_message (one turn of a chat session) with    *)
(*     the chatbot_sessions / chatbot_messages / task_jobs tables,         *)
(*   - IntentService.classify_intent and its JSON extraction,              *)
(*   - RAGContextService (filtered similarity search, context assembly),   *)
(*   - the embedding gateway's sliding-window rate limiter and retry loop. *)
(***************************************************************************)
EXTENDS Integers, Sequences, FiniteSets, TLC

VARIABLES
    sessions,      \* chatbot_sessions table: session_id -> row
    messages,      \* chatbot_messages table: committed rows, in insertion order
    jobs,          \* task_jobs table: committed rows, in insertion order
    turn,          \* one record per request (a turn of process_message)
    completed,     \* history: session_id -> number of committed turns
    clock,         \* time.monotonic(), in seconds
    window_min,    \* _rate_limit_window_min
    window_sec,    \* _rate_limit_window_sec
    lock,          \* holder of _rate_limit_lock, or NoThread
    thr,           \* one record per thread calling _embed_content_with_retry
    recorded,      \* history: the call times the limiter recorded
    sent,          \* history: the outbound embed_content requests, in order
    emb,           \* one call of generate_embeddings_batch
    note_tbl,      \* notes table: the committed row of one note
    chunk_tbl,     \* note_chunks table: the committed rows of that note
    upd,           \* one record per call of update_note
    call,          \* one call of build_context, semantic_search_notes or chunk_text
    job_run        \* per task job: its task_jobs row, its request, its worker

\* the variables of the library functions, which no request of the
\* conversation and no call of the rate limiter touches
libVars == <<emb, note_tbl, chunk_tbl, upd, call, job_run>>
turnVars == <<sessions, messages, jobs, turn, completed>>
limiterVars == <<clock, window_min, window_sec, lock, thr, recorded, sent>>
chatVars == <<sessions, messages, jobs, turn, completed, libVars>>
rlVars == <<clock, window_min, window_sec, lock, thr, recorded, sent, libVars>>
vars == <<sessions, messages, jobs, turn, completed,
          clock, window_min, window_sec, lock, thr, recorded, sent, libVars>>

-----------------------------------------------------------------------------
(* Bounds of the model.                                                    *)

MaxTurns == 2

Turns == 1..MaxTurns

-----------------------------------------------------------------------------
(* Values.                                                                 *)

Null == "<null>"

Users == {1, 2}
SessionIds == {"s1", "s2", "s3"}
\* session ids that uuid4() hands to create_session
FreshSessionIds == {"s1"}
Titles == {Null, "T"}
\* message texts (min_length 1 at the endpoint): blank, and two queries
Messages == {" ", "hi", "budget"}

SixIntents == {"search", "summarize", "question", "manage", "analytics", "chat"}

-----------------------------------------------------------------------------
(* Python helpers.                                                         *)

\* str.strip() on the message texts
Strip(s) == IF s = " " THEN "" ELSE s

\* bool(str) / bool(None)
Truthy(s) == s # Null /\ s # ""

RECURSIVE SeqToSet(_)
SeqToSet(s) == IF s = <<>> THEN {} ELSE {Head(s)} \cup SeqToSet(Tail(s))

-----------------------------------------------------------------------------
(* The notes, audio files and chunks of the users (maintained by the note  *)
(* CRUD operations, read-only for a conversation turn).                    *)

NoAudio == 0

Notes ==
    { [id |-> 1, user_id |-> 1, audio_file_id |-> 11, is_archived |-> FALSE,
       category |-> "meeting", created_day |-> 10],
      [id |-> 2, user_id |-> 1, audio_file_id |-> NoAudio, is_archived |-> FALSE,
       category |-> "general", created_day |-> 20],
      [id |-> 3, user_id |-> 1, audio_file_id |-> 12, is_archived |-> TRUE,
       category |-> "meeting", created_day |-> 15],
      [id |-> 4, user_id |-> 2, audio_file_id |-> 13, is_archived |-> FALSE,
       category |-> "meeting", created_day |-> 12] }

NoteOf(id) == CHOOSE n \in Notes : n.id = id

\* note_chunks rows; phrases: the substrings of chunk_text the keyword
\* filter can ask for; block_len: length of the chunk's context block
NoteChunks ==
    { [id |-> 101, note_id |-> 1, chunk_type |-> "content", phrases |-> {"budget", "plan", "budget plan"}, block_len |-> 3060],
      [id |-> 102, note_id |-> 1, chunk_type |-> "content", phrases |-> {"budget", "plan"}, block_len |-> 3060],
      [id |-> 103, note_id |-> 1, chunk_type |-> "summary", phrases |-> {}, block_len |-> 3060],
      [id |-> 104, note_id |-> 1, chunk_type |-> "summary", phrases |-> {}, block_len |-> 3060],
      [id |-> 105, note_id |-> 2, chunk_type |-> "content", phrases |-> {"plan"}, block_len |-> 1560],
      [id |-> 106, note_id |-> 2, chunk_type |-> "summary", phrases |-> {}, block_len |-> 1560],
      [id |-> 107, note_id |-> 3, chunk_type |-> "content", phrases |-> {"budget"}, block_len |-> 1560],
      [id |-> 108, note_id |-> 4, chunk_type |-> "content", phrases |-> {"budget"}, block_len |-> 1560] }

ChunkOf(id) == CHOOSE c \in NoteChunks : c.id = id

\* 1 - cosine_distance(chunk embedding, embedding of the query), in
\* hundredths; distinct per query so that the ranking is determined
Similarity(query, chunk_id) ==
    IF query = "budget"
    THEN CASE chunk_id = 101 -> 92 [] chunk_id = 102 -> 81 [] chunk_id = 103 -> 40
           [] chunk_id = 104 -> 35 [] chunk_id = 105 -> 55 [] chunk_id = 106 -> 30
           [] chunk_id = 107 -> 95 [] OTHER -> 90
    ELSE CASE chunk_id = 101 -> 41 [] chunk_id = 102 -> 38 [] chunk_id = 103 -> 45
           [] chunk_id = 104 -> 33 [] chunk_id = 105 -> 47 [] chunk_id = 106 -> 31
           [] chunk_id = 107 -> 49 [] OTHER -> 48

-----------------------------------------------------------------------------
(* IntentService: the JSON the intent model answers with.                  *)

\* the "entities" object of an answer (ek: the JSON type of the member)
Ent(ek, dr_kind, dr_start, dr_end, cats, aids, kws, ak, acts) ==
    [ek |-> ek, dr_kind |-> dr_kind, dr_start |-> dr_start, dr_end |-> dr_end,
     categories |-> cats, audio_ids |-> aids, keywords |-> kws,
     actions_kind |-> ak, actions |-> acts]

\* {} : no member present
EmptyEntities == Ent("dict", "absent", 0, 0, {}, {}, <<>>, "absent", {})
EntMissing == [EmptyEntities EXCEPT !.ek = "missing"]
EntNull == [EmptyEntities EXCEPT !.ek = "null"]
EntList == [EmptyEntities EXCEPT !.ek = "list"]
EntActions(acts) == [EmptyEntities EXCEPT !.actions_kind = "list", !.actions = acts]
EntActionsNull == [EmptyEntities EXCEPT !.actions_kind = "null"]
EntCategories(cats) == [EmptyEntities EXCEPT !.categories = cats]
EntKeywords(kws) == [EmptyEntities EXCEPT !.keywords = kws]
EntAudioIds(aids) == [EmptyEntities EXCEPT !.audio_ids = aids]
\* date_range given as {"start": ..., "end": ...}; 0: member absent or not a
\* date (fromisoformat raises ValueError), -1: a JSON number
EntDates(s, e) == [EmptyEntities EXCEPT !.dr_kind = "dict", !.dr_start = s, !.dr_end = e]
\* date_range given as a JSON string
EntDateString == [EmptyEntities EXCEPT !.dr_kind = "string"]

\* a JSON value; t: its type; conf_kind/conf_val: the "confidence" member
\* (conf_val in hundredths)
Json(t, intent, ent, ck, cv) ==
    [t |-> t, intent |-> intent, entities |-> ent, conf_kind |-> ck, conf_val |-> cv]

Obj(intent, ent) == Json("object", intent, ent, "number", 90)
JsonArray == Json("array", "<missing>", EntMissing, "missing", 0)
JsonEmptyObject == Json("empty_object", "<missing>", EntMissing, "missing", 0)
JsonNull == Json("null", "<missing>", EntMissing, "missing", 0)

\* answers of the intent model: the taxonomy's six intents with the entity
\* shapes the prompt asks for, and the malformed shapes a model can produce
IntentAnswers ==
    { Obj("search", EmptyEntities),
      Obj("search", EntCategories({"general"})),
      Obj("search", EntCategories({"lecture"})),
      Obj("search", EntKeywords(<<"budget", "plan">>)),
      Obj("search", EntAudioIds({13})),
      Obj("search", EntDates(11, 0)),
      Obj("summarize", EmptyEntities),
      Obj("question", EntDateString),
      Obj("question", EntDates(-1, 0)),
      Obj("question", EntCategories({"lecture"})),
      Obj("analytics", EntNull),
      Obj("manage", EntActions({"delete", "archive"})),
      Obj("manage", EntActions({"archive"})),
      Obj("manage", EntMissing),
      Obj("manage", EntActionsNull),
      Obj("chat", EntList),
      Obj("remind", EmptyEntities),
      Obj("<missing>", EmptyEntities),
      Obj("<list>", EmptyEntities),
      Obj(Null, EmptyEntities),
      Json("object", "summarize", EmptyEntities, "string", 0),
      Json("object", "question", EmptyEntities, "missing", 0),
      JsonArray,
      JsonEmptyObject }

\* what generate_content gives the classifier: an exception, or a response
\* whose text is None or a string of one of these forms:
\*   json        the text is a JSON document
\*   fenced      prose or a code fence around one JSON object
\*   two_objects prose with two JSON objects
\*   garbage     no JSON at all
IntentResponses ==
    { [outcome |-> "raise", form |-> "none", value |-> JsonNull],
      [outcome |-> "text", form |-> "none", value |-> JsonNull],
      [outcome |-> "text", form |-> "garbage", value |-> JsonNull],
      [outcome |-> "text", form |-> "two_objects", value |-> Obj("search", EmptyEntities)],
      [outcome |-> "text", form |-> "fenced", value |-> Obj("summarize", EmptyEntities)],
      [outcome |-> "text", form |-> "fenced", value |-> JsonArray] }
    \cup { [outcome |-> "text", form |-> "json", value |-> v] : v \in IntentAnswers }

\* bool(parsed)
JsonTruthy(v) == v.t \in {"object", "array"}

\* IntentService._extract_json: [raised, value]; value JsonNull is None
_extract_json(text) ==
    CASE text.form = "json" -> [raised |-> FALSE, value |-> text.value]
      [] text.form = "fenced" ->
            \* json.loads fails; the regex finds the braces of an object only
            IF text.value.t \in {"object", "empty_object"}
            THEN [raised |-> FALSE, value |-> text.value]
            ELSE [raised |-> FALSE, value |-> JsonNull]
      [] text.form = "two_objects" ->
            \* the greedy match spans both objects: json.loads fails again
            [raised |-> FALSE, value |-> JsonNull]
      [] text.form = "garbage" -> [raised |-> FALSE, value |-> JsonNull]
      [] OTHER ->
            \* text is None: re.search raises TypeError
            [raised |-> TRUE, value |-> JsonNull]

\* the safe default of classify_intent
DefaultIntent == Json("object", "chat", EmptyEntities, "number", 40)

\* IntentService.classify_intent on the model's response
classify_intent(resp) ==
    IF resp.outcome = "raise" THEN DefaultIntent
    ELSE LET parsed == _extract_json(resp)
         IN  IF parsed.raised THEN DefaultIntent
             ELSE IF JsonTruthy(parsed.value) THEN parsed.value
             ELSE DefaultIntent

\* process_message, lines 44-54: [raised, intent, entities, confidence]
NormalizeIntent(intent_result) ==
    IF intent_result.t # "object"
    THEN \* list.get: AttributeError
         [raised |-> TRUE, intent |-> Null, entities |-> EmptyEntities, confidence |-> 0]
    ELSE IF intent_result.intent = "<list>"
    THEN \* list in set: TypeError (unhashable)
         [raised |-> TRUE, intent |-> Null, entities |-> EmptyEntities, confidence |-> 0]
    ELSE [raised |-> FALSE,
          intent |-> IF intent_result.intent = "<missing>" THEN "chat"
                     ELSE IF intent_result.intent \notin SixIntents THEN "chat"
                     ELSE intent_result.intent,
          entities |-> IF intent_result.entities.ek = "dict"
                       THEN intent_result.entities ELSE EmptyEntities,
          confidence |-> IF intent_result.conf_kind = "number"
                         THEN intent_result.conf_val ELSE 0]

-----------------------------------------------------------------------------
(* RAGContextService.                                                      *)

\* semantic_search_with_filters: limit
limit == 5
\* build_context: max_tokens
max_tokens == 3000

\* ' '.join(keywords)
RECURSIVE JoinWords(_)
JoinWords(kws) ==
    IF kws = <<>> THEN ""
    ELSE IF Len(kws) = 1 THEN Head(kws)
    ELSE Head(kws) \o " " \o JoinWords(Tail(kws))

\* a WHERE clause in which an audio id filter stands in for the owner
MatchesFiltersByAudio(c, user_id, entities) ==
    LET note == NoteOf(c.note_id)
    IN  /\ entities.audio_ids = {} => note.user_id = user_id
        /\ ~note.is_archived
        /\ entities.dr_start > 0 => note.created_day >= entities.dr_start
        /\ entities.dr_end > 0 => note.created_day <= entities.dr_end
        /\ entities.categories # {} => note.category \in entities.categories
        /\ entities.audio_ids # {} => note.audio_file_id \in entities.audio_ids
        /\ entities.keywords # <<>> => JoinWords(entities.keywords) \in c.phrases

\* the WHERE clause built from the user and the entities
MatchesFilters(c, user_id, entities) ==
    LET note == NoteOf(c.note_id)
    IN  /\ note.user_id = user_id
        /\ ~note.is_archived
        /\ entities.dr_start > 0 => note.created_day >= entities.dr_start
        /\ entities.dr_end > 0 => note.created_day <= entities.dr_end
        /\ entities.categories # {} => note.category \in entities.categories
        /\ entities.audio_ids # {} => note.audio_file_id \in entities.audio_ids
        /\ entities.keywords # <<>> => JoinWords(entities.keywords) \in c.phrases

\* ORDER BY cosine_distance ... LIMIT n, over a set of chunk ids
RECURSIVE OrderByDistance(_, _, _)
OrderByDistance(ids, query, n) ==
    IF ids = {} \/ n = 0 THEN <<>>
    ELSE LET best == CHOOSE i \in ids :
                        \A j \in ids : Similarity(query, i) >= Similarity(query, j)
         IN  <<best>> \o OrderByDistance(ids \ {best}, query, n - 1)

\* generate_query_embedding: is there a vector to search with
\* (provider: "ok" or "fail"; a blank query is not sent)
QueryEmbedded(query, provider) == Strip(query) # "" /\ provider = "ok"

\* semantic_search_with_filters: [raised, chunks]
semantic_search_with_filters(user_id, query, entities, provider) ==
    IF ~QueryEmbedded(query, provider) THEN [raised |-> FALSE, chunks |-> <<>>]
    ELSE IF entities.dr_kind = "string"
    THEN \* str.get: AttributeError
         [raised |-> TRUE, chunks |-> <<>>]
    ELSE IF entities.dr_start < 0 \/ entities.dr_end < 0
    THEN \* fromisoformat(int): TypeError, not the ValueError _parse_date catches
         [raised |-> TRUE, chunks |-> <<>>]
    ELSE [raised |-> FALSE,
          chunks |-> OrderByDistance(
                        {c.id : c \in {x \in NoteChunks : MatchesFilters(x, user_id, entities)}},
                        query, limit)]

\* get_related_audio_files: audio ids, first-seen order, no duplicates
RECURSIVE get_related_audio_files(_)
get_related_audio_files(chunks) ==
    IF chunks = <<>> THEN <<>>
    ELSE LET front == get_related_audio_files(SubSeq(chunks, 1, Len(chunks) - 1))
             audio == NoteOf(ChunkOf(chunks[Len(chunks)]).note_id).audio_file_id
         IN  IF audio # NoAudio /\ audio \notin SeqToSet(front)
             THEN Append(front, audio) ELSE front

\* get_related_notes: note ids, first-seen order, no duplicates
RECURSIVE get_related_notes(_)
get_related_notes(chunks) ==
    IF chunks = <<>> THEN <<>>
    ELSE LET front == get_related_notes(SubSeq(chunks, 1, Len(chunks) - 1))
             note == ChunkOf(chunks[Len(chunks)]).note_id
         IN  IF note \notin SeqToSet(front) THEN Append(front, note) ELSE front

\* the loop of build_context from chunk i on: the blocks appended
RECURSIVE ContextParts(_, _, _, _)
ContextParts(chunks, i, total_chars, max_chars) ==
    IF i > Len(chunks) THEN <<>>
    ELSE LET n == ChunkOf(chunks[i]).block_len
         IN  IF total_chars + n > max_chars THEN <<>>
             ELSE <<chunks[i]>> \o ContextParts(chunks, i + 1, total_chars + n, max_chars)

\* build_context: the chunks whose blocks make up the returned string
build_context(chunks, tokens) == ContextParts(chunks, 1, 0, tokens * 4)

RECURSIVE SumBlocks(_)
SumBlocks(parts) ==
    IF parts = <<>> THEN 0 ELSE ChunkOf(Head(parts)).block_len + SumBlocks(Tail(parts))

\* len("\n".join(context_parts))
ContextLength(parts) ==
    IF parts = <<>> THEN 0 ELSE SumBlocks(parts) + (Len(parts) - 1)

-----------------------------------------------------------------------------
(* ChatbotService: the intent handlers.                                    *)

RetrievalIntents == {"search", "summarize", "question", "analytics"}
ContextIntents == {"summarize", "question", "analytics"}

\* the fixed texts of the handlers
ClarifyText(intent) == intent \o "_clarify"
FallbackText(intent) == intent \o "_fallback"
ClarifyTexts == {ClarifyText(i) : i \in ContextIntents}
FallbackTexts == {FallbackText(i) : i \in ContextIntents \cup {"chat"}}

\* outcomes of the response model's generate_content: a text, an
\* exception, or a response without text (response.text is None)
GenerationOutcomes == {"text", "raise", "none"}

\* _generate_response
_generate_response(outcome, fallback) ==
    CASE outcome = "raise" -> fallback
      [] outcome = "none" -> Null
      [] OTHER -> "generated"

Result(text, gen_calls) == [raised |-> FALSE, text |-> text, gen_calls |-> gen_calls]

\* a search handler with the wording branches in the wrong order
_handle_search_swapped(audio_files) ==
    LET count == Len(audio_files)
    IN  Result(IF count = 0 THEN "search_found_many"
               ELSE IF count = 1 THEN "search_found_one"
               ELSE "search_not_found", 0)

\* _handle_search
_handle_search(audio_files) ==
    LET count == Len(audio_files)
    IN  Result(IF count = 0 THEN "search_not_found"
               ELSE IF count = 1 THEN "search_found_one"
               ELSE "search_found_many", 0)

\* a context handler without the empty-context check
HandleAlwaysGenerates(intent, context, outcome) ==
    Result(_generate_response(outcome, FallbackText(intent)), 1)

\* _handle_summarization, _handle_question, _handle_analytics
HandleWithContext(intent, context, outcome) ==
    IF context = <<>> THEN Result(ClarifyText(intent), 0)
    ELSE Result(_generate_response(outcome, FallbackText(intent)), 1)

\* _handle_management
_handle_management(entities) ==
    IF entities.actions_kind = "null"
    THEN \* "delete" in None: TypeError
         [raised |-> TRUE, text |-> Null, gen_calls |-> 0]
    ELSE Result(IF "delete" \in entities.actions THEN "manage_delete"
                ELSE IF "archive" \in entities.actions THEN "manage_archive"
                ELSE "manage_other", 0)

\* _handle_chat
_handle_chat(outcome) == Result(_generate_response(outcome, FallbackText("chat")), 1)

\* the dispatch of process_message, lines 69-80
Dispatch(intent, entities, audio_files, context, outcome) ==
    CASE intent = "search" -> _handle_search(audio_files)
      [] intent \in ContextIntents -> HandleWithContext(intent, context, outcome)
      [] intent = "manage" -> _handle_management(entities)
      [] OTHER -> _handle_chat(outcome)

-----------------------------------------------------------------------------
(* The chatbot tables and the state of a turn.                             *)

NoRow == [exists |-> FALSE, user_id |-> 0, title |-> Null,
          total_messages |-> 0, is_active |-> FALSE]

\* the ChatbotSession object a turn holds: the attributes as loaded
NoSession == [title |-> Null, total_messages |-> 0]

IdleTurn ==
    [pc |-> "idle", user_id |-> 0, session_id |-> Null, message |-> Null,
     session |-> NoSession, intent |-> Null, entities |-> EmptyEntities,
     confidence |-> 0, chunks |-> <<>>, audio_files |-> <<>>, notes |-> <<>>,
     context |-> <<>>, text |-> Null, raised |-> Null, at |-> Null,
     intent_calls |-> 0, embed_calls |-> 0, gen_calls |-> 0]

\* positions of a turn that is neither waiting to start nor over
Running(t) == turn[t].pc \in {"received", "session", "classified", "retrieved", "handled"}

\* the rows a committed turn inserts
MessageRow(t, role, content, intent) ==
    [turn |-> t, session_id |-> turn[t].session_id, role |-> role,
     content |-> content, intent |-> intent]

\* a lookup that forgets the is_active filter
SessionFoundInactive(user_id, session_id) ==
    /\ sessions[session_id].exists
    /\ sessions[session_id].user_id = user_id

\* ChatbotService._get_session: the filter of the query
SessionFound(user_id, session_id) ==
    /\ sessions[session_id].exists
    /\ sessions[session_id].user_id = user_id
    /\ sessions[session_id].is_active

\* a rollback that leaves the turn's user row behind, as if it had been
\* flushed and committed on its own
RollbackKeepsUserRow(t) ==
    [sessions |-> sessions,
     messages |-> Append(messages, MessageRow(t, "user", turn[t].message, turn[t].intent))]

\* the except branch of process_message: db.rollback() discards the
\* pending objects, the tables stay as they are
Rollback(t) == [sessions |-> sessions, messages |-> messages]

\* a commit that counts the turn as one message
CommitCountsOne(t) ==
    [sessions |->
        [sessions EXCEPT ![turn[t].session_id] =
            [@ EXCEPT !.total_messages = turn[t].session.total_messages + 1]],
     messages |->
        messages \o << MessageRow(t, "user", turn[t].message, turn[t].intent),
                       MessageRow(t, "assistant", turn[t].text, turn[t].intent) >>]

\* db.commit() of a turn: both INSERTs and the UPDATE of the session row,
\* computed from the attributes the turn loaded
Commit(t) ==
    LET loaded == turn[t].session
        sid == turn[t].session_id
        title == IF ~Truthy(loaded.title) THEN Strip(turn[t].message) ELSE loaded.title
    IN  [sessions |->
            [sessions EXCEPT ![sid] =
                [@ EXCEPT !.title = IF title # loaded.title THEN title ELSE @,
                          !.total_messages = loaded.total_messages + 2]],
         messages |->
            messages \o << MessageRow(t, "user", turn[t].message, turn[t].intent),
                           MessageRow(t, "assistant", turn[t].text, turn[t].intent) >>]

\* the turn ends with exception exc, raised at its current position
Abort(t, exc) ==
    [turn EXCEPT ![t].pc = "aborted", ![t].raised = exc, ![t].at = turn[t].pc]

\* the tables after this step are those of db
Tables(db) ==
    /\ sessions' = db.sessions
    /\ messages' = db.messages

\* an exception reaches the except branch of process_message (lines
\* 126-128): rollback, then the exception is raised to the caller
Raise(t, aborted) ==
    /\ turn' = aborted
    /\ Tables(Rollback(t))

-----------------------------------------------------------------------------
(* Operations.                                                             *)

\* ChatbotService.create_session
create_session(user_id, title) ==
    /\ \E sid \in FreshSessionIds :
          /\ ~sessions[sid].exists
          /\ sessions' = [sessions EXCEPT ![sid] =
                [exists |-> TRUE, user_id |-> user_id, title |-> title,
                 total_messages |-> 0, is_active |-> TRUE]]
    /\ UNCHANGED <<messages, jobs, turn, completed, rlVars>>

\* a caller enters process_message (at most max_running turns under way)
Begin(t, user_id, session_id, message, max_running) ==
    /\ turn[t].pc = "idle"
    /\ \A x \in Turns : x < t => turn[x].pc # "idle"
    /\ Cardinality({x \in Turns : Running(x)}) < max_running
    /\ turn' = [turn EXCEPT ![t] = [IdleTurn EXCEPT !.pc = "received",
                    !.user_id = user_id, !.session_id = session_id,
                    !.message = message]]
    /\ UNCHANGED <<sessions, messages, jobs, completed, rlVars>>

\* process_message, lines 40-41: _get_session
GetSession(t) ==
    /\ turn[t].pc = "received"
    /\ IF SessionFound(turn[t].user_id, turn[t].session_id)
       THEN /\ turn' = [turn EXCEPT ![t].pc = "session",
                          ![t].session = [title |-> sessions[turn[t].session_id].title,
                                          total_messages |->
                                              sessions[turn[t].session_id].total_messages]]
            /\ UNCHANGED <<sessions, messages>>
       ELSE Raise(t, Abort(t, "ValueError"))
    /\ UNCHANGED <<jobs, completed, rlVars>>

\* process_message, lines 43-54: classify_intent and the normalisation
ClassifyIntent(t, resp) ==
    /\ turn[t].pc = "session"
    /\ LET r == NormalizeIntent(classify_intent(resp))
       IN  IF r.raised
           THEN Raise(t, [Abort(t, "AttributeError") EXCEPT ![t].intent_calls = 1])
           ELSE /\ turn' = [turn EXCEPT ![t].pc = "classified", ![t].intent = r.intent,
                              ![t].entities = r.entities, ![t].confidence = r.confidence,
                              ![t].intent_calls = 1]
                /\ UNCHANGED <<sessions, messages>>
    /\ UNCHANGED <<jobs, completed, rlVars>>

\* process_message, lines 56-67: the retrieval step
Retrieve(t, provider) ==
    /\ turn[t].pc = "classified"
    /\ IF turn[t].intent \in RetrievalIntents
       THEN LET r == semantic_search_with_filters(turn[t].user_id, turn[t].message,
                                                  turn[t].entities, provider)
                calls == IF Strip(turn[t].message) # "" THEN 1 ELSE 0
            IN  IF r.raised
                THEN Raise(t, [Abort(t, "TypeError") EXCEPT ![t].embed_calls = calls])
                ELSE /\ turn' = [turn EXCEPT ![t].pc = "retrieved",
                                   ![t].chunks = r.chunks,
                                   ![t].audio_files = get_related_audio_files(r.chunks),
                                   ![t].notes = get_related_notes(r.chunks),
                                   ![t].context = build_context(r.chunks, max_tokens),
                                   ![t].embed_calls = calls]
                     /\ UNCHANGED <<sessions, messages>>
       ELSE /\ turn' = [turn EXCEPT ![t].pc = "retrieved"]
            /\ UNCHANGED <<sessions, messages>>
    /\ UNCHANGED <<jobs, completed, rlVars>>

\* process_message, lines 69-95: the intent handler
Handle(t, outcome) ==
    /\ turn[t].pc = "retrieved"
    /\ LET r == Dispatch(turn[t].intent, turn[t].entities, turn[t].audio_files,
                         turn[t].context, outcome)
       IN  IF r.raised
           THEN Raise(t, Abort(t, "TypeError"))
           ELSE /\ turn' = [turn EXCEPT ![t].pc = "handled", ![t].text = r.text,
                              ![t].gen_calls = r.gen_calls]
                /\ UNCHANGED <<sessions, messages>>
    /\ UNCHANGED <<jobs, completed, rlVars>>

\* process_message, lines 97-137: the two rows, title, counter, commit.
\* The commit fails when the database does (db_ok false) or when the
\* assistant row violates content NOT NULL.
Persist(t, db_ok) ==
    /\ turn[t].pc = "handled"
    /\ IF db_ok /\ turn[t].text # Null
       THEN /\ Tables(Commit(t))
            /\ turn' = [turn EXCEPT ![t].pc = "responded"]
            /\ completed' = [completed EXCEPT ![turn[t].session_id] = @ + 1]
       ELSE /\ Raise(t, Abort(t, IF turn[t].text = Null THEN "IntegrityError"
                                  ELSE "OperationalError"))
            /\ UNCHANGED completed
    /\ UNCHANGED <<jobs, rlVars>>

\* outcomes of TaskJobService.create_and_queue_job
QueueOutcomes == {"no_pool", "create_fails", "enqueue_fails", "queued"}

\* the endpoint send_chat_message_async, a request of its own: the
\* session lookup, then create_and_queue_job; it ends "not_found" (404)
\* or "accepted" (202)
send_chat_message_async(t, user_id, session_id, outcome) ==
    /\ turn[t].pc = "idle"
    /\ \A x \in Turns : x < t => turn[x].pc # "idle"
    /\ IF ~SessionFound(user_id, session_id)
       THEN /\ turn' = [turn EXCEPT ![t] = [IdleTurn EXCEPT !.pc = "not_found",
                           !.user_id = user_id, !.session_id = session_id,
                           !.raised = "ValueError"]]
            /\ UNCHANGED jobs
       ELSE /\ turn' = [turn EXCEPT ![t] = [IdleTurn EXCEPT !.pc = "accepted",
                           !.user_id = user_id, !.session_id = session_id]]
            /\ jobs' = CASE outcome \in {"no_pool", "create_fails"} -> jobs
                         [] outcome = "enqueue_fails" ->
                              Append(jobs, [request |-> t, user_id |-> user_id,
                                            status |-> "failed"])
                         [] OTHER ->
                              Append(jobs, [request |-> t, user_id |-> user_id,
                                            status |-> "queued"])
    /\ UNCHANGED <<sessions, messages, completed, rlVars>>

-----------------------------------------------------------------------------
(* Specifications of the conversation turns.                               *)

NoThread == 0

\* no call of generate_embeddings_batch is under way
NoRun == [pc |-> "none"]
EmbIdle == emb = NoRun

\* no note is stored and update_note is never called
NoNote == [exists |-> FALSE, content |-> Null, summary |-> Null,
           content_by |-> 0, summary_by |-> 0]
NotesIdle ==
    /\ note_tbl = NoNote
    /\ chunk_tbl = {}
    /\ upd = <<>>

\* none of the three functions is called
CallIdle == call = NoRun

\* no task job is handled
JobsIdle == job_run = <<>>

\* the library functions are not in use
LibIdle == EmbIdle /\ NotesIdle /\ CallIdle /\ JobsIdle

RateLimiterIdle ==
    /\ clock = 0
    /\ window_min = <<>>
    /\ window_sec = <<>>
    /\ lock = NoThread
    /\ thr = <<>>
    /\ recorded = <<>>
    /\ sent = <<>>

ChatInit ==
    /\ sessions = [sid \in SessionIds |->
                      IF sid = "s2"
                      THEN [exists |-> TRUE, user_id |-> 1, title |-> Null,
                            total_messages |-> 0, is_active |-> FALSE]
                      ELSE NoRow]
    /\ messages = <<>>
    /\ jobs = <<>>
    /\ turn = [t \in Turns |-> IdleTurn]
    /\ completed = [sid \in SessionIds |-> 0]

Init == ChatInit /\ RateLimiterIdle /\ LibIdle

\* the steps of a turn under way
TurnStep(t) ==
    \/ GetSession(t)
    \/ \E resp \in IntentResponses : ClassifyIntent(t, resp)
    \/ \E provider \in {"ok", "fail"} : Retrieve(t, provider)
    \/ \E outcome \in GenerationOutcomes : Handle(t, outcome)
    \/ \E db_ok \in BOOLEAN : Persist(t, db_ok)

\* requests of any callers, running concurrently
Next ==
    \/ \E u \in Users, title \in Titles : create_session(u, title)
    \/ \E t \in Turns, u \in Users, sid \in SessionIds, m \in Messages :
          Begin(t, u, sid, m, MaxTurns)
    \/ \E t \in Turns : TurnStep(t)
    \/ \E t \in Turns, u \in Users, sid \in SessionIds, o \in QueueOutcomes :
          send_chat_message_async(t, u, sid, o)

Spec == Init /\ [][Next]_vars

\* the same requests, with the turns executed one at a time
NextSeq ==
    \/ \E u \in Users, title \in Titles : create_session(u, title)
    \/ \E t \in Turns, u \in Users, sid \in SessionIds, m \in Messages :
          Begin(t, u, sid, m, 1)
    \/ \E t \in Turns : TurnStep(t)
    \/ \E t \in Turns, u \in Users, sid \in SessionIds, o \in QueueOutcomes :
          send_chat_message_async(t, u, sid, o)

SpecSeq == Init /\ [][NextSeq]_vars

-----------------------------------------------------------------------------
(* The embedding gateway: rate limiter and retry loop.  Times are whole    *)
(* seconds of time.monotonic().                                            *)

MaxThreads == 2
Threads == 1..MaxThreads

\* the ceilings and the retry settings, as the environment configures them
\* (EMBEDDING_RATE_LIMIT_PER_MIN, EMBEDDING_RATE_LIMIT_PER_SEC,
\* EMBEDDING_MAX_RETRIES, EMBEDDING_BACKOFF_BASE_SECONDS,
\* EMBEDDING_BACKOFF_MAX_SECONDS)
_EMBEDDING_RATE_LIMIT_PER_MIN == 2
_EMBEDDING_RATE_LIMIT_PER_SEC == 1
_EMBEDDING_MAX_RETRIES == 2
_EMBEDDING_BACKOFF_BASE_SECONDS == 1
_EMBEDDING_BACKOFF_MAX_SECONDS == 32

\* the lengths of the two windows, in seconds
MinuteWindow == 60
SecondWindow == 1

Max(a, b) == IF a >= b THEN a ELSE b
Min(a, b) == IF a <= b THEN a ELSE b

RECURSIVE Pow2(_)
Pow2(n) == IF n = 0 THEN 1 ELSE 2 * Pow2(n - 1)

\* _trim_rate_limit_window
RECURSIVE _trim_rate_limit_window(_, _, _)
_trim_rate_limit_window(window, now, window_seconds) ==
    IF window # <<>> /\ now - Head(window) > window_seconds
    THEN _trim_rate_limit_window(Tail(window), now, window_seconds)
    ELSE window

\* _apply_rate_limit, one window: trim it; at capacity, the time to sleep
\* until the oldest entry expires.  [window, sleep, wake]
CheckWindow(window, now, ceiling, window_seconds) ==
    IF ceiling <= 0 THEN [window |-> window, sleep |-> FALSE, wake |-> now]
    ELSE LET w == _trim_rate_limit_window(window, now, window_seconds)
         IN  IF Len(w) >= ceiling /\ window_seconds - (now - Head(w)) > 0
             THEN [window |-> w, sleep |-> TRUE, wake |-> Head(w) + window_seconds]
             ELSE [window |-> w, sleep |-> FALSE, wake |-> now]

\* _apply_rate_limit, lines 113-116: the call is recorded in both windows
RecordCall(window, now, ceiling) ==
    IF ceiling > 0 THEN Append(window, now) ELSE window

\* a classification that retries every failure
RetryAnyError(outcome) == outcome # "ok"

\* _is_retryable_error on the provider's outcomes
_is_retryable_error(outcome) == outcome = "rate_limited"

\* _get_backoff_seconds without the jitter (the sleep may last longer)
_get_backoff_seconds(attempt) ==
    Min(_EMBEDDING_BACKOFF_MAX_SECONDS, _EMBEDDING_BACKOFF_BASE_SECONDS * Pow2(attempt))

IdleThread == [pc |-> "idle", attempt |-> 0, now |-> 0, wake |-> 0, outcome |-> Null]

\* time.sleep(wake - now) returns at wake or later
AfterSleep(i, late) == Max(clock, thr[i].wake) + late

\* lines 99-116 of _apply_rate_limit for thread i, with the per-minute
\* window already handled (wmin) and the clock reading now
SecondPhase(i, now, wmin) ==
    LET c == CheckWindow(window_sec, now, _EMBEDDING_RATE_LIMIT_PER_SEC, SecondWindow)
    IN  IF c.sleep
        THEN /\ window_min' = wmin
             /\ window_sec' = c.window
             /\ lock' = i
             /\ thr' = [thr EXCEPT ![i].pc = "sleep_sec", ![i].now = now,
                                   ![i].wake = c.wake]
             /\ UNCHANGED recorded
        ELSE /\ window_min' = RecordCall(wmin, now, _EMBEDDING_RATE_LIMIT_PER_MIN)
             /\ window_sec' = RecordCall(c.window, now, _EMBEDDING_RATE_LIMIT_PER_SEC)
             /\ recorded' = Append(recorded, [thread |-> i, time |-> now])
             /\ lock' = NoThread
             /\ thr' = [thr EXCEPT ![i].pc = "send", ![i].now = now]

\* a thread enters _embed_content_with_retry
Call(i) ==
    /\ thr[i].pc = "idle"
    /\ thr' = [thr EXCEPT ![i].pc = "limit"]
    /\ UNCHANGED <<clock, window_min, window_sec, lock, recorded, sent, chatVars>>

\* _apply_rate_limit up to its first sleep: take the lock, read the clock,
\* check the per-minute window, then the per-second window
ApplyRateLimit(i) ==
    /\ thr[i].pc = "limit"
    /\ IF _EMBEDDING_RATE_LIMIT_PER_MIN <= 0 /\ _EMBEDDING_RATE_LIMIT_PER_SEC <= 0
       THEN /\ thr' = [thr EXCEPT ![i].pc = "send"]
            /\ UNCHANGED <<window_min, window_sec, lock, recorded>>
       ELSE /\ lock = NoThread
            /\ LET c == CheckWindow(window_min, clock, _EMBEDDING_RATE_LIMIT_PER_MIN,
                                    MinuteWindow)
               IN  IF c.sleep
                   THEN /\ window_min' = c.window
                        /\ lock' = i
                        /\ thr' = [thr EXCEPT ![i].pc = "sleep_min", ![i].now = clock,
                                              ![i].wake = c.wake]
                        /\ UNCHANGED <<window_sec, recorded>>
                   ELSE SecondPhase(i, clock, c.window)
    /\ UNCHANGED <<clock, sent, chatVars>>

\* the sleep of the per-minute check is over: lines 96-97, then the
\* per-second check
WakeMinute(i, late) ==
    /\ thr[i].pc = "sleep_min"
    /\ clock' = AfterSleep(i, late)
    /\ SecondPhase(i, clock',
                   _trim_rate_limit_window(window_min, clock', MinuteWindow))
    /\ UNCHANGED <<sent, chatVars>>

\* the sleep of the per-second check is over: lines 110-116
WakeSecond(i, late) ==
    /\ thr[i].pc = "sleep_sec"
    /\ clock' = AfterSleep(i, late)
    /\ window_min' = RecordCall(window_min, clock', _EMBEDDING_RATE_LIMIT_PER_MIN)
    /\ window_sec' = RecordCall(_trim_rate_limit_window(window_sec, clock', SecondWindow),
                                clock', _EMBEDDING_RATE_LIMIT_PER_SEC)
    /\ recorded' = Append(recorded, [thread |-> i, time |-> clock'])
    /\ lock' = NoThread
    /\ thr' = [thr EXCEPT ![i].pc = "send", ![i].now = clock']
    /\ UNCHANGED <<sent, chatVars>>

\* client.models.embed_content: the request goes out
SendRequest(i) ==
    /\ thr[i].pc = "send"
    /\ sent' = Append(sent, [thread |-> i, time |-> clock, attempt |-> thr[i].attempt])
    /\ thr' = [thr EXCEPT ![i].pc = "in_flight"]
    /\ UNCHANGED <<clock, window_min, window_sec, lock, recorded, chatVars>>

ProviderOutcomes == {"ok", "rate_limited", "error"}

\* the provider answers: return, raise, or back off
Respond(i, outcome) ==
    /\ thr[i].pc = "in_flight"
    /\ thr' = IF outcome = "ok"
              THEN [thr EXCEPT ![i].pc = "returned", ![i].outcome = outcome]
              ELSE IF ~_is_retryable_error(outcome)
                      \/ thr[i].attempt >= _EMBEDDING_MAX_RETRIES
              THEN [thr EXCEPT ![i].pc = "raised", ![i].outcome = outcome]
              ELSE [thr EXCEPT ![i].pc = "backoff", ![i].outcome = outcome,
                               ![i].wake = clock + _get_backoff_seconds(thr[i].attempt)]
    /\ UNCHANGED <<clock, window_min, window_sec, lock, recorded, sent, chatVars>>

\* the backoff sleep is over: the next attempt of the loop
Retry(i) ==
    /\ thr[i].pc = "backoff"
    /\ clock' = AfterSleep(i, 0)
    /\ thr' = [thr EXCEPT ![i].pc = "limit", ![i].attempt = @ + 1]
    /\ UNCHANGED <<window_min, window_sec, lock, recorded, sent, chatVars>>

RateLimiterInit ==
    /\ clock = 0
    /\ window_min = <<>>
    /\ window_sec = <<>>
    /\ lock = NoThread
    /\ thr = [i \in Threads |-> IdleThread]
    /\ recorded = <<>>
    /\ sent = <<>>

InitRL == ChatInit /\ RateLimiterInit /\ LibIdle

NextRL ==
    \/ \E i \in Threads : Call(i)
    \/ \E i \in Threads : ApplyRateLimit(i)
    \/ \E i \in Threads, late \in {0, 1} : WakeMinute(i, late)
    \/ \E i \in Threads, late \in {0, 1} : WakeSecond(i, late)
    \/ \E i \in Threads : SendRequest(i)
    \/ \E i \in Threads, o \in ProviderOutcomes : Respond(i, o)
    \/ \E i \in Threads : Retry(i)

SpecRL == InitRL /\ [][NextRL]_vars

-----------------------------------------------------------------------------
(* Properties of the conversation turns.                                   *)

\* the turn got past its handler (lines 69-95)
Handled(t) ==
    \/ turn[t].pc \in {"handled", "responded"}
    \/ turn[t].pc = "aborted" /\ turn[t].at = "handled"

\* the turn got past its retrieval step (lines 56-67)
Retrieved(t) ==
    \/ turn[t].pc = "retrieved"
    \/ Handled(t)
    \/ turn[t].pc = "aborted" /\ turn[t].at = "retrieved"

\* the turn got past the classification (lines 43-54)
Classified(t) ==
    \/ turn[t].pc = "classified"
    \/ Retrieved(t)
    \/ turn[t].pc = "aborted" /\ turn[t].at = "classified"

\* the session exists, belongs to the user and is active
OwnedActive(user_id, session_id) ==
    /\ sessions[session_id].exists
    /\ sessions[session_id].user_id = user_id
    /\ sessions[session_id].is_active

\* the messages stored for a session
MessagesOf(sid) == {k \in 1..Len(messages) : messages[k].session_id = sid}

\* C1: a turn is all-or-nothing.  The step that ends a turn "responded"
\* appends its user row and its assistant row, sets the title if it was unset
\* and writes the loaded total_messages + 2, all in that one step; the step
\* that ends a turn "aborted" raises an exception and leaves the tables as
\* they are; no other step of a turn changes the tables.
C1_AllOrNothing ==
    [][\A t \in Turns :
          LET sid == turn[t].session_id
              loaded == turn[t].session
          IN  /\ (turn[t].pc # "responded" /\ turn'[t].pc = "responded") =>
                    /\ turn[t].pc = "handled"
                    /\ messages' = messages \o
                          << [turn |-> t, session_id |-> sid, role |-> "user",
                              content |-> turn[t].message, intent |-> turn[t].intent],
                             [turn |-> t, session_id |-> sid, role |-> "assistant",
                              content |-> turn[t].text, intent |-> turn[t].intent] >>
                    /\ sessions'[sid].total_messages = loaded.total_messages + 2
                    /\ sessions'[sid].title =
                          IF Truthy(loaded.title) THEN sessions[sid].title
                          ELSE Strip(turn[t].message)
                    /\ \A other \in SessionIds \ {sid} : sessions'[other] = sessions[other]
              /\ (turn[t].pc # "aborted" /\ turn'[t].pc = "aborted") =>
                    /\ turn'[t].raised # Null
                    /\ sessions' = sessions
                    /\ messages' = messages
              /\ (Running(t) /\ turn'[t] # turn[t] /\ turn'[t].pc \notin {"responded", "aborted"}) =>
                    /\ sessions' = sessions
                    /\ messages' = messages
      ]_vars

\* C1 witness: one turn was committed and another one was aborted by a
\* failing commit, its rows not stored
C1_Witness ==
    \E t, u \in Turns :
        /\ turn[t].pc = "responded"
        /\ turn[u].pc = "aborted" /\ turn[u].at = "handled"
        /\ Len(messages) = 2

\* C2: once two concurrent turns on the same session have both finished,
\* both pairs of rows are stored and total_messages is the prior total
\* (0 for the fresh session) plus 2 per finished turn, i.e. plus 4.
C2_ConcurrentTurnsCountFour ==
    \A sid \in SessionIds :
        (completed[sid] = 2 /\ \A t \in Turns : ~Running(t)) =>
            /\ Cardinality(MessagesOf(sid)) = 4
            /\ sessions[sid].total_messages = 4

\* C3: the session lookup is the gate and runs first.  A turn whose session
\* is missing, foreign or inactive ends "aborted" with the not-found
\* ValueError in its first step, having made no classifier, embedding or
\* generation call and written nothing; the asynchronous endpoint answers
\* such a request "not_found" and writes no job row; and no call is made
\* by a turn that has not passed the lookup.
C3_LookupIsTheGate ==
    [][\A t \in Turns :
          /\ (turn[t].pc = "received" /\ turn'[t] # turn[t]
                /\ ~OwnedActive(turn[t].user_id, turn[t].session_id)) =>
                /\ turn'[t].pc = "aborted"
                /\ turn'[t].raised = "ValueError"
                /\ turn'[t].intent_calls = 0
                /\ turn'[t].embed_calls = 0
                /\ turn'[t].gen_calls = 0
                /\ sessions' = sessions /\ messages' = messages /\ jobs' = jobs
          /\ (turn[t].pc = "idle" /\ turn'[t].pc \in {"not_found", "accepted"}
                /\ ~OwnedActive(turn'[t].user_id, turn'[t].session_id)) =>
                /\ turn'[t].pc = "not_found"
                /\ sessions' = sessions /\ messages' = messages /\ jobs' = jobs
          /\ turn[t].pc \in {"idle", "received", "not_found", "accepted"} =>
                turn[t].intent_calls + turn[t].embed_calls + turn[t].gen_calls = 0
      ]_vars

\* C3 witness: a turn on the inactive session was refused, and so was an
\* asynchronous request of another user's session
C3_Witness ==
    \E t, u \in Turns :
        /\ turn[t].pc = "aborted" /\ turn[t].raised = "ValueError"
        /\ turn[t].session_id = "s2" /\ turn[t].user_id = 1
        /\ turn[u].pc = "not_found"
        /\ sessions[turn[u].session_id].exists
        /\ sessions[turn[u].session_id].is_active
        /\ sessions[turn[u].session_id].user_id # turn[u].user_id

\* C4: with the turns executed one at a time, a session made by
\* create_session always has total_messages equal to twice its number of
\* committed turns and to the number of its stored rows, and a step never
\* changes or removes a stored row (the old rows are a prefix of the new).
C4_CounterMatchesRows ==
    /\ [](\A sid \in FreshSessionIds :
            sessions[sid].exists =>
                /\ sessions[sid].total_messages = 2 * completed[sid]
                /\ sessions[sid].total_messages = Cardinality(MessagesOf(sid)))
    /\ [][/\ Len(messages') >= Len(messages)
          /\ SubSeq(messages', 1, Len(messages)) = messages]_vars

\* C4 witness: after a committed turn and an aborted one the counter is 2
C4_Witness ==
    \E t, u \in Turns :
        /\ turn[t].pc = "responded" /\ turn[t].session_id = "s1"
        /\ turn[u].pc = "aborted" /\ turn[u].session_id = "s1"
        /\ turn[u].at # "received"
        /\ sessions["s1"].total_messages = 2

\* C5: a failure of the generation call never aborts the turn.  A handler
\* that called the response model ends with a text, the generated one or
\* its fallback, and such a turn is aborted only by a failure of the
\* database at the commit.
C5_GenerationNeverAborts ==
    \A t \in Turns :
        (Handled(t) /\ turn[t].gen_calls = 1) =>
            /\ turn[t].text \in {"generated"} \cup FallbackTexts
            /\ turn[t].pc = "aborted" => turn[t].raised = "OperationalError"

\* C6: whatever the classifier returns, the turn is not aborted because of
\* it, and the intent of a classified turn is one of the six.
C6_ClassifierNeverAborts ==
    \A t \in Turns :
        /\ turn[t].pc = "aborted" =>
              turn[t].raised \in {"ValueError", "OperationalError", "IntegrityError"}
        /\ Classified(t) => turn[t].intent \in SixIntents

\* C7: the response model is called if and only if the intent is chat, or
\* it is summarize, question or analytics and the context is not empty; at
\* most once; never for search or manage; with an empty context the three
\* context intents answer with their clarifying prompt; and no call is made
\* before the handler.
C7_GeneratorCalledIff ==
    \A t \in Turns :
        /\ turn[t].gen_calls \in {0, 1}
        /\ ~Handled(t) => turn[t].gen_calls = 0
        /\ Handled(t) =>
              /\ turn[t].intent \in SixIntents
              /\ turn[t].gen_calls = 1 <=>
                    \/ turn[t].intent = "chat"
                    \/ turn[t].intent \in {"summarize", "question", "analytics"}
                       /\ turn[t].context # <<>>
              /\ (turn[t].intent \in {"summarize", "question", "analytics"}
                    /\ turn[t].context = <<>>) =>
                    turn[t].text = turn[t].intent \o "_clarify"

\* C7 witness: a question answered from a context, and a summary refused
\* for want of one
C7_Witness ==
    \E t, u \in Turns :
        /\ Handled(t) /\ turn[t].intent = "question" /\ turn[t].context # <<>>
        /\ turn[t].gen_calls = 1
        /\ Handled(u) /\ turn[u].intent = "summarize" /\ turn[u].context = <<>>
        /\ turn[u].gen_calls = 0

\* the default similarity threshold of the note search, in hundredths
similarity_threshold == 50

\* the chunks of the user's notes that are not archived
ChunksOfUser(user_id) ==
    {c \in NoteChunks : NoteOf(c.note_id).user_id = user_id
                        /\ ~NoteOf(c.note_id).is_archived}

\* C8: when every chunk of the user is less similar to the query than the
\* threshold, the retrieval step returns no chunk, and a summarize,
\* question or analytics turn answers with its clarifying prompt without
\* calling the response model.
C8_BelowThresholdIsEmpty ==
    \A t \in Turns :
        (/\ Retrieved(t)
         /\ turn[t].intent \in RetrievalIntents
         /\ \A c \in ChunksOfUser(turn[t].user_id) :
               Similarity(turn[t].message, c.id) < similarity_threshold) =>
            /\ turn[t].chunks = <<>>
            /\ (Handled(t) /\ turn[t].intent \in ContextIntents) =>
                  /\ turn[t].text \in ClarifyTexts
                  /\ turn[t].gen_calls = 0

\* C9 as stated: a search turn without a matching chunk answers "not
\* found" with empty reference lists and makes no call at all to the
\* generative API.
C9_SearchNoGenerativeCall ==
    \A t \in Turns :
        (Handled(t) /\ turn[t].intent = "search" /\ turn[t].chunks = <<>>) =>
            /\ turn[t].text = "search_not_found"
            /\ turn[t].audio_files = <<>> /\ turn[t].notes = <<>>
            /\ turn[t].intent_calls + turn[t].gen_calls = 0

\* C9 amended: a search turn without a matching chunk answers "not found"
\* with empty reference lists and never calls the response model; the one
\* call of the turn to the generative API is the intent classifier's.
C9_SearchNoGeneration ==
    \A t \in Turns :
        (Handled(t) /\ turn[t].intent = "search" /\ turn[t].chunks = <<>>) =>
            /\ turn[t].text = "search_not_found"
            /\ turn[t].audio_files = <<>> /\ turn[t].notes = <<>>
            /\ turn[t].gen_calls = 0
            /\ turn[t].intent_calls = 1

\* C9 witness: a search turn of a non-blank query whose filters match no
\* chunk has been answered
C9_Witness ==
    \E t \in Turns :
        /\ turn[t].pc = "responded" /\ turn[t].intent = "search"
        /\ turn[t].chunks = <<>> /\ turn[t].embed_calls = 1
        /\ turn[t].text = "search_not_found"

-----------------------------------------------------------------------------
(* Properties of the rate limiter.                                         *)

\* the recorded calls in the window of the given length that ends with the
\* k-th recorded call (the window is open at its old end)
CallsInWindow(k, window_seconds) ==
    {j \in 1..k : recorded[j].time > recorded[k].time - window_seconds}

\* the requests thread i has sent, and the calls it has had recorded
SentBy(i) == {k \in 1..Len(sent) : sent[k].thread = i}
RecordedBy(i) == {k \in 1..Len(recorded) : recorded[k].thread = i}

\* C10: every outbound request is recorded by the limiter before it is
\* sent, and the recorded call times never hold more than the per-second
\* ceiling within one second nor more than the per-minute ceiling within
\* sixty seconds.
C10_WithinCeilings ==
    /\ \A i \in Threads :
          /\ Cardinality(SentBy(i)) <= Cardinality(RecordedBy(i))
          /\ thr[i].pc = "in_flight" =>
                Cardinality(SentBy(i)) = Cardinality(RecordedBy(i))
    /\ \A k \in 1..Len(recorded) :
          /\ Cardinality(CallsInWindow(k, SecondWindow)) <= _EMBEDDING_RATE_LIMIT_PER_SEC
          /\ Cardinality(CallsInWindow(k, MinuteWindow)) <= _EMBEDDING_RATE_LIMIT_PER_MIN

\* the attempt numbers of the requests thread i has sent, in order
AttemptsOf(i) ==
    LET RECURSIVE Pick(_)
        Pick(k) == IF k = 0 THEN <<>>
                   ELSE IF sent[k].thread = i
                        THEN Append(Pick(k - 1), sent[k].attempt)
                        ELSE Pick(k - 1)
    IN  Pick(Len(sent))

\* C11: one embedding request makes at most MAX_RETRIES + 1 outbound
\* attempts, numbered 0, 1, 2, ... in order.  A success ends the loop at
\* once; a failure that is not a rate-limit failure, and a rate-limit
\* failure of the last allowed attempt, propagate without a sleep; any
\* other rate-limit failure sleeps min(max, base * 2^attempt) seconds or
\* more, and only then the next attempt is made.
C11_BoundedRetries ==
    /\ [](\A i \in Threads :
            /\ Len(AttemptsOf(i)) <= _EMBEDDING_MAX_RETRIES + 1
            /\ \A k \in 1..Len(AttemptsOf(i)) : AttemptsOf(i)[k] = k - 1
            /\ thr[i].pc = "returned" => thr[i].outcome = "ok"
            /\ thr[i].pc = "raised" =>
                  \/ thr[i].outcome = "error"
                  \/ thr[i].outcome = "rate_limited"
                     /\ Len(AttemptsOf(i)) = _EMBEDDING_MAX_RETRIES + 1
            /\ thr[i].pc = "backoff" =>
                  /\ thr[i].outcome = "rate_limited"
                  /\ thr[i].attempt < _EMBEDDING_MAX_RETRIES)
    /\ [][\A i \in Threads :
            /\ (thr[i].pc = "in_flight" /\ thr'[i].pc # "in_flight") =>
                  /\ thr'[i].pc \in {"returned", "raised", "backoff"}
                  /\ clock' = clock
                  /\ thr'[i].pc = "backoff" =>
                        LET base == _EMBEDDING_BACKOFF_BASE_SECONDS * (2 ^ thr[i].attempt)
                        IN  thr'[i].wake = clock +
                              (IF base < _EMBEDDING_BACKOFF_MAX_SECONDS THEN base
                               ELSE _EMBEDDING_BACKOFF_MAX_SECONDS)
            /\ (thr[i].pc = "backoff" /\ thr'[i].pc # "backoff") =>
                  /\ thr'[i].pc = "limit"
                  /\ thr'[i].attempt = thr[i].attempt + 1
                  /\ clock' >= thr[i].wake
            /\ thr[i].pc \in {"returned", "raised"} => thr'[i] = thr[i]
            /\ Len(sent') > Len(sent) /\ sent'[Len(sent')].thread = i =>
                  thr[i].pc = "send"
      ]_vars

\* C11 witness: one request was given up after MAX_RETRIES + 1 rate-limited
\* attempts, another failed for good at its first attempt
C11_Witness ==
    \E i, j \in Threads :
        /\ thr[i].pc = "raised" /\ thr[i].outcome = "rate_limited"
        /\ Len(AttemptsOf(i)) = _EMBEDDING_MAX_RETRIES + 1
        /\ thr[j].pc = "raised" /\ thr[j].outcome = "error"
        /\ Len(AttemptsOf(j)) = 1

-----------------------------------------------------------------------------
(* generate_embeddings_batch and generate_embedding.  A text is its        *)
(* length and whether strip() leaves nothing of it; a vector is named by   *)
(* the index of the text it was computed for and the number of characters  *)
(* that were sent.                                                         *)

MaxTexts == 3
_EMBEDDING_BATCH_SIZE == 2

_MAX_CHARS_PER_EMBEDDING == 20000
_MAX_TOKENS_PER_BATCH == 18000

Text(len, blank) == [len |-> len, blank |-> blank]

\* "", "  ", "hello", a text above the character ceiling that still fits a
\* shared batch, and a text whose tokens alone exceed a batch
EmbedTexts ==
    {Text(0, TRUE), Text(2, TRUE), Text(5, FALSE), Text(40000, FALSE), Text(80000, FALSE)}

TextLists == UNION {[1..n -> EmbedTexts] : n \in 0..MaxTexts}

\* an estimate that takes every text for one token
EstimateOneToken(text) == 1

\* _estimate_token_count
_estimate_token_count(text) == text.len \div 4 + 1

\* _create_token_aware_batches, from text i on
RECURSIVE BatchesFrom(_, _, _, _, _, _)
BatchesFrom(texts, i, batches, current_batch, current_tokens, max_batch_size) ==
    LET flushed == IF current_batch # <<>> THEN Append(batches, current_batch)
                   ELSE batches
    IN  IF i > Len(texts) THEN flushed
        ELSE LET text_tokens == _estimate_token_count(texts[i])
             IN  IF text_tokens > _MAX_TOKENS_PER_BATCH
                 THEN BatchesFrom(texts, i + 1, Append(flushed, <<i>>), <<>>,
                                  IF current_batch # <<>> THEN 0 ELSE current_tokens,
                                  max_batch_size)
                 ELSE IF \/ current_tokens + text_tokens > _MAX_TOKENS_PER_BATCH
                         \/ Len(current_batch) >= max_batch_size
                      THEN BatchesFrom(texts, i + 1, flushed, <<i>>, text_tokens,
                                       max_batch_size)
                      ELSE BatchesFrom(texts, i + 1, batches, Append(current_batch, i),
                                       current_tokens + text_tokens, max_batch_size)

\* _create_token_aware_batches
_create_token_aware_batches(texts, max_batch_size) ==
    BatchesFrom(texts, 1, <<>>, <<>>, 0, max_batch_size)

Vector(index, chars) == [of |-> index, chars |-> chars]

\* None in the place of a vector
NoVector == Vector(0, 0)

\* a vector the provider computed for none of the texts of the call
StrayVector == Vector(MaxTexts + 1, 1)

\* the items of one outbound request, as they are sent
Item(index, chars, blank) == [index |-> index, chars |-> chars, blank |-> blank]

\* what _embed_content_with_retry ends with for one text: a response with
\* its vector, an exception, a response without embeddings, an embedding
\* without values
SingleOutcomes == {"ok", "raise", "empty", "null"}

\* generate_embedding: [embedding, requests]
generate_embedding(text, index, outcome) ==
    IF text.len = 0 \/ text.blank
    THEN [embedding |-> NoVector, requests |-> <<>>]
    ELSE LET chars == IF text.len > _MAX_CHARS_PER_EMBEDDING
                      THEN _MAX_CHARS_PER_EMBEDDING ELSE text.len
         IN  [embedding |-> IF outcome = "ok" THEN Vector(index, chars) ELSE NoVector,
              requests |-> << <<Item(index, chars, FALSE)>> >>]

\* what _embed_content_with_retry ends with for a list of texts: one vector
\* per text in order, one too few, one too many, a first embedding without
\* values, no embeddings, an exception
BatchOutcomes == {"ok", "short", "long", "null", "empty", "raise"}

\* the embeddings of the response to a request for the texts at
\* batch_indices
ResponseEmbeddings(texts, batch_indices, outcome) ==
    LET n == Len(batch_indices)
        full == [p \in 1..n |->
                    [values |-> Vector(batch_indices[p], texts[batch_indices[p]].len)]]
    IN  CASE outcome = "ok" -> full
          [] outcome = "short" -> SubSeq(full, 1, n - 1)
          [] outcome = "long" -> Append(full, [values |-> StrayVector])
          [] outcome = "null" -> [full EXCEPT ![1] = [values |-> NoVector]]
          [] OTHER -> <<>>

\* _extract_embeddings
_extract_embeddings(response) ==
    IF response.embeddings # <<>>
    THEN [p \in 1..Len(response.embeddings) |-> response.embeddings[p].values]
    ELSE <<>>

\* generate_embeddings_batch, lines 331-340: pad with None or truncate
FitToBatch(batch_embeddings, n) ==
    IF Len(batch_embeddings) < n
    THEN batch_embeddings \o [p \in 1..(n - Len(batch_embeddings)) |-> NoVector]
    ELSE SubSeq(batch_embeddings, 1, n)

\* an assignment by the position in the batch instead of the text's index
AssignByPosition(embeddings, batch_indices, batch_embeddings) ==
    [i \in 1..Len(embeddings) |->
        IF i <= Len(batch_embeddings) THEN batch_embeddings[i] ELSE embeddings[i]]

\* generate_embeddings_batch, lines 342-343
AssignBatch(embeddings, batch_indices, batch_embeddings) ==
    [i \in 1..Len(embeddings) |->
        IF \E p \in 1..Len(batch_indices) : batch_indices[p] = i
        THEN batch_embeddings[CHOOSE p \in 1..Len(batch_indices) : batch_indices[p] = i]
        ELSE embeddings[i]]

\* a retry loop with one attempt more
RetryAttemptsOneMore == 1..(_EMBEDDING_MAX_RETRIES + 2)

\* _embed_content_with_retry, lines 136-159: the attempts of one call, each
\* with one outbound request and a backoff sleep before every attempt but
\* the first
RetryAttempts == 1..(_EMBEDDING_MAX_RETRIES + 1)

\* the call is made with these texts
Called(texts) == [pc |-> "called", texts |-> texts]

\* generate_embeddings_batch, lines 305-319
EnterBatch ==
    /\ emb.pc = "called"
    /\ emb' = IF emb.texts = <<>>
              THEN [pc |-> "returned", texts |-> emb.texts, batches |-> <<>>, b |-> 1,
                    k |-> 1, embeddings |-> <<>>, requests |-> <<>>,
                    outbound |-> 0, backoffs |-> 0]
              ELSE [pc |-> "loop", texts |-> emb.texts,
                    batches |-> _create_token_aware_batches(emb.texts, _EMBEDDING_BATCH_SIZE),
                    b |-> 1, k |-> 1,
                    embeddings |-> [i \in 1..Len(emb.texts) |-> NoVector],
                    requests |-> <<>>, outbound |-> 0, backoffs |-> 0]
    /\ UNCHANGED <<turnVars, limiterVars, job_run, note_tbl, chunk_tbl, upd, call>>

\* lines 323-325: a batch of one text goes through generate_embedding
EmbedSingle(outcome) ==
    /\ emb.pc = "loop"
    /\ emb.b <= Len(emb.batches)
    /\ Len(emb.batches[emb.b]) = 1
    /\ LET idx == emb.batches[emb.b][1]
           r == generate_embedding(emb.texts[idx], idx, outcome)
       IN  \E attempts \in RetryAttempts :
               emb' = [emb EXCEPT !.embeddings[idx] = r.embedding,
                                  !.requests = @ \o r.requests,
                                  !.outbound = @ + attempts * Len(r.requests),
                                  !.backoffs = @ + (attempts - 1) * Len(r.requests),
                                  !.b = @ + 1]
    /\ UNCHANGED <<turnVars, limiterVars, job_run, note_tbl, chunk_tbl, upd, call>>

\* lines 326-352: one request for the texts of the batch
EmbedBatch(outcome) ==
    /\ emb.pc = "loop"
    /\ emb.b <= Len(emb.batches)
    /\ Len(emb.batches[emb.b]) > 1
    /\ LET batch_indices == emb.batches[emb.b]
           request == [p \in 1..Len(batch_indices) |->
                          Item(batch_indices[p], emb.texts[batch_indices[p]].len,
                               emb.texts[batch_indices[p]].blank)]
           batch_embeddings ==
               FitToBatch(_extract_embeddings(
                   [embeddings |-> ResponseEmbeddings(emb.texts, batch_indices, outcome)]),
                   Len(batch_indices))
       IN  \E attempts \in RetryAttempts :
               emb' = IF outcome = "raise"
                      THEN [emb EXCEPT !.pc = "fallback", !.k = 1,
                                       !.requests = Append(@, request),
                                       !.outbound = @ + attempts,
                                       !.backoffs = @ + attempts - 1]
                      ELSE [emb EXCEPT !.embeddings =
                                           AssignBatch(@, batch_indices, batch_embeddings),
                                       !.requests = Append(@, request),
                                       !.outbound = @ + attempts,
                                       !.backoffs = @ + attempts - 1,
                                       !.b = @ + 1]
    /\ UNCHANGED <<turnVars, limiterVars, job_run, note_tbl, chunk_tbl, upd, call>>

\* a fallback that embeds the first text of the failed batch only
FallbackFirstOnly(outcome) ==
    /\ emb.pc = "fallback"
    /\ LET idx == emb.batches[emb.b][emb.k]
           r == generate_embedding(emb.texts[idx], idx, outcome)
       IN  \E attempts \in RetryAttempts :
               emb' = [emb EXCEPT !.embeddings[idx] = r.embedding,
                                  !.requests = @ \o r.requests,
                                  !.outbound = @ + attempts * Len(r.requests),
                                  !.backoffs = @ + (attempts - 1) * Len(r.requests),
                                  !.k = 1, !.b = @ + 1, !.pc = "loop"]
    /\ UNCHANGED <<turnVars, limiterVars, job_run, note_tbl, chunk_tbl, upd, call>>

\* lines 353-355: the texts of a failed batch, one by one
FallbackItem(outcome) ==
    /\ emb.pc = "fallback"
    /\ LET batch_indices == emb.batches[emb.b]
           idx == batch_indices[emb.k]
           r == generate_embedding(emb.texts[idx], idx, outcome)
           last == emb.k = Len(batch_indices)
       IN  \E attempts \in RetryAttempts :
               emb' = [emb EXCEPT !.embeddings[idx] = r.embedding,
                                  !.requests = @ \o r.requests,
                                  !.outbound = @ + attempts * Len(r.requests),
                                  !.backoffs = @ + (attempts - 1) * Len(r.requests),
                                  !.k = IF last THEN 1 ELSE @ + 1,
                                  !.b = IF last THEN @ + 1 ELSE @,
                                  !.pc = IF last THEN "loop" ELSE "fallback"]
    /\ UNCHANGED <<turnVars, limiterVars, job_run, note_tbl, chunk_tbl, upd, call>>

\* line 367
ReturnEmbeddings ==
    /\ emb.pc = "loop"
    /\ emb.b > Len(emb.batches)
    /\ emb' = [emb EXCEPT !.pc = "returned"]
    /\ UNCHANGED <<turnVars, limiterVars, job_run, note_tbl, chunk_tbl, upd, call>>

InitEmbed ==
    /\ ChatInit /\ RateLimiterIdle /\ JobsIdle /\ NotesIdle /\ CallIdle
    /\ \E texts \in TextLists : emb = Called(texts)

NextEmbed ==
    \/ EnterBatch
    \/ \E o \in SingleOutcomes : EmbedSingle(o)
    \/ \E o \in BatchOutcomes : EmbedBatch(o)
    \/ \E o \in SingleOutcomes : FallbackItem(o)
    \/ ReturnEmbeddings

SpecEmbed == InitEmbed /\ [][NextEmbed]_vars

\* the thread of the call keeps running
SpecEmbedFair == SpecEmbed /\ WF_vars(NextEmbed)

-----------------------------------------------------------------------------
(* Properties of generate_embeddings_batch.                                *)

\* the call has entered its loop
EmbedRunning == emb.pc \in {"loop", "fallback", "returned"}

\* C12: the call never leaves its loop by an exception; its result always
\* has one entry per text, entry i being null or the vector computed for
\* text i; and a step that handles one batch writes only entries of that
\* batch.
C12_OneEntryPerText ==
    /\ [](/\ emb.pc \in {"called", "loop", "fallback", "returned"}
          /\ EmbedRunning =>
                /\ Len(emb.embeddings) = Len(emb.texts)
                /\ \A i \in 1..Len(emb.texts) :
                      \/ emb.embeddings[i] = NoVector
                      \/ emb.embeddings[i].of = i)
    /\ [][(emb.pc \in {"loop", "fallback"} /\ emb'.pc \in {"loop", "fallback", "returned"}) =>
            \A i \in 1..Len(emb.texts) :
                emb'.embeddings[i] # emb.embeddings[i] =>
                    \E p \in 1..Len(emb.batches[emb.b]) : emb.batches[emb.b][p] = i
      ]_vars

\* C12 witness: a call with three texts has returned after a response that
\* was one vector short: the second text of a two-text request has no
\* vector and was not embedded on its own, the first one has its vector
C12_Witness ==
    /\ emb.pc = "returned"
    /\ Len(emb.texts) = 3
    /\ \E r \in 1..Len(emb.requests) :
          /\ Len(emb.requests[r]) = 2
          /\ emb.embeddings[emb.requests[r][1].index] # NoVector
          /\ emb.embeddings[emb.requests[r][2].index] = NoVector
          /\ \A q \in 1..Len(emb.requests) : Len(emb.requests[q]) = 1 =>
                emb.requests[q][1].index \notin {emb.requests[r][1].index,
                                                 emb.requests[r][2].index}
          /\ emb.requests[r][1].index > 1

\* C13: an empty or whitespace-only text is never part of a request to the
\* provider, and its entry of the result is null.
C13_BlankNeverSent ==
    EmbedRunning =>
        /\ \A r \in 1..Len(emb.requests) : \A p \in 1..Len(emb.requests[r]) :
              ~emb.requests[r][p].blank
        /\ emb.pc = "returned" =>
              \A i \in 1..Len(emb.texts) :
                  emb.texts[i].blank => emb.embeddings[i] = NoVector

\* C14: no item of a request to the provider is longer than the character
\* ceiling.
C14_NeverAboveCeiling ==
    EmbedRunning =>
        \A r \in 1..Len(emb.requests) : \A p \in 1..Len(emb.requests[r]) :
            emb.requests[r][p].chars <= _MAX_CHARS_PER_EMBEDDING

-----------------------------------------------------------------------------
(* create_note and update_note on one note.  A text is named by its        *)
(* version; a chunk row records the type, the version of the text it was   *)
(* cut from, its index and the call that wrote it.                         *)

MaxUpdates == 2
Updates == 1..MaxUpdates

\* a field that is not given, or given as null
Absent == "<absent>"

\* "" and two texts
NoteTexts == {"", "a", "b"}
FieldValues == {Absent} \cup NoteTexts
ChunkTypes == {"content", "summary"}

\* bool(value) of an optional string
Given(value) == value \notin {Absent, Null, ""}

\* the number of chunks chunk_text cuts a text into
ChunkCount(text) == CASE text = "a" -> 2 [] text = "b" -> 1 [] OTHER -> 0

ChunkRow(type, text, index, by) ==
    [chunk_type |-> type, text |-> text, chunk_index |-> index, by |-> by]

\* the rows added for a text: one per chunk whose embedding was generated
NewRows(type, text, stored, by) ==
    {ChunkRow(type, text, i, by) : i \in (1..ChunkCount(text)) \cap stored}

\* which chunks got an embedding: none of them, or all
StoredSets == {{}, 1..2}

\* the committed rows of a type
RowsOf(type) == {r \in chunk_tbl : r.chunk_type = type}

\* setattr(note, field, value) for the values that are not None
SetField(old, value) == IF value \notin {Absent, Null} THEN value ELSE old

\* create_note: the note and its chunks, in one commit
create_note(content, summary, stored_content, stored_summary) ==
    /\ ~note_tbl.exists
    /\ note_tbl' = [exists |-> TRUE,
                    content |-> IF content = Absent THEN Null ELSE content,
                    summary |-> IF summary = Absent THEN Null ELSE summary,
                    content_by |-> 0, summary_by |-> 0]
    /\ chunk_tbl' =
          (IF Given(content) THEN NewRows("content", content, stored_content, 0) ELSE {})
          \cup
          (IF Given(summary) THEN NewRows("summary", summary, stored_summary, 0) ELSE {})
    /\ UNCHANGED <<turnVars, limiterVars, job_run, emb, upd, call>>

IdleUpdate == [pc |-> "idle", content |-> Absent, summary |-> Absent,
               deleted |-> {}, added |-> {}]

\* an update_note call is under way
Updating(c) == upd[c].pc \in {"found", "content", "summary"}

\* the rows another open transaction has deleted and not yet committed
LockedBy(c) == upd[c].deleted

\* update_note, lines 500-509: the note is looked up
UpdateBegin(c, content, summary, max_running) ==
    /\ upd[c].pc = "idle"
    /\ \A x \in Updates : x < c => upd[x].pc # "idle"
    /\ Cardinality({x \in Updates : Updating(x)}) < max_running
    /\ upd' = [upd EXCEPT ![c] = [IdleUpdate EXCEPT
                  !.pc = IF note_tbl.exists THEN "found" ELSE "not_found",
                  !.content = content, !.summary = summary]]
    /\ UNCHANGED <<turnVars, limiterVars, job_run, emb, note_tbl, chunk_tbl, call>>

\* the delete and the inserts for one type (lines 513-543 and 545-575):
\* the DELETE waits for the rows another transaction has deleted
ReplaceChunks(c, type, value, stored, next_pc) ==
    IF Given(value)
    THEN /\ \A x \in Updates \ {c} : Updating(x) => LockedBy(x) \cap RowsOf(type) = {}
         /\ upd' = [upd EXCEPT ![c].pc = next_pc,
                               ![c].deleted = @ \cup RowsOf(type),
                               ![c].added = @ \cup NewRows(type, value, stored, c)]
    ELSE upd' = [upd EXCEPT ![c].pc = next_pc]

UpdateContent(c, stored) ==
    /\ upd[c].pc = "found"
    /\ ReplaceChunks(c, "content", upd[c].content, stored, "content")
    /\ UNCHANGED <<turnVars, limiterVars, job_run, emb, note_tbl, chunk_tbl, call>>

UpdateSummary(c, stored) ==
    /\ upd[c].pc = "content"
    /\ ReplaceChunks(c, "summary", upd[c].summary, stored, "summary")
    /\ UNCHANGED <<turnVars, limiterVars, job_run, emb, note_tbl, chunk_tbl, call>>

\* lines 577-583 and 592-594: the fields are set and everything is
\* committed, or the transaction is rolled back
UpdateCommit(c, db_ok) ==
    /\ upd[c].pc = "summary"
    /\ IF db_ok
       THEN /\ chunk_tbl' = (chunk_tbl \ upd[c].deleted) \cup upd[c].added
            /\ note_tbl' = [note_tbl EXCEPT
                  !.content = SetField(@, upd[c].content),
                  !.summary = SetField(@, upd[c].summary),
                  !.content_by = IF Given(upd[c].content) THEN c ELSE @,
                  !.summary_by = IF Given(upd[c].summary) THEN c ELSE @]
            /\ upd' = [upd EXCEPT ![c].pc = "done"]
       ELSE /\ UNCHANGED <<note_tbl, chunk_tbl>>
            /\ upd' = [upd EXCEPT ![c].pc = "failed"]
    /\ UNCHANGED <<turnVars, limiterVars, job_run, emb, call>>

NotesInit ==
    /\ note_tbl = NoNote
    /\ chunk_tbl = {}
    /\ upd = [c \in Updates |-> IdleUpdate]

InitNotes == ChatInit /\ RateLimiterIdle /\ JobsIdle /\ EmbIdle /\ CallIdle /\ NotesInit

UpdateStep(c) ==
    \/ \E stored \in StoredSets : UpdateContent(c, stored)
    \/ \E stored \in StoredSets : UpdateSummary(c, stored)
    \/ \E db_ok \in BOOLEAN : UpdateCommit(c, db_ok)

\* calls of any callers, running concurrently
NextNotes ==
    \/ \E content, summary \in FieldValues, sc, ss \in StoredSets :
          create_note(content, summary, sc, ss)
    \/ \E c \in Updates, content, summary \in FieldValues :
          UpdateBegin(c, content, summary, MaxUpdates)
    \/ \E c \in Updates : UpdateStep(c)

SpecNotes == InitNotes /\ [][NextNotes]_vars

\* the same calls, one at a time
NextNotesSeq ==
    \/ \E content, summary \in FieldValues, sc, ss \in StoredSets :
          create_note(content, summary, sc, ss)
    \/ \E c \in Updates, content, summary \in FieldValues :
          UpdateBegin(c, content, summary, 1)
    \/ \E c \in Updates : UpdateStep(c)

SpecNotesSeq == InitNotes /\ [][NextNotesSeq]_vars

\* C15: when no update is under way, every stored chunk of a type was cut
\* from the note's current text of that type; in particular a note whose
\* text is empty has no chunk of that type.
C15_ChunksOfCurrentText ==
    (\A c \in Updates : ~Updating(c)) =>
        \A r \in chunk_tbl :
            r.text = (IF r.chunk_type = "content" THEN note_tbl.content
                      ELSE note_tbl.summary)

\* C16: the chunks stored for a type were all written by one call, the one
\* that committed a replacement of them last, and no two of them have the
\* same index.
C16_LastCommitWins ==
    \A r1, r2 \in chunk_tbl :
        r1.chunk_type = r2.chunk_type =>
            /\ r1.by = r2.by
            /\ r1.by = (IF r1.chunk_type = "content" THEN note_tbl.content_by
                        ELSE note_tbl.summary_by)
            /\ r1.chunk_index = r2.chunk_index => r1 = r2

\* C30: an update that commits a non-empty new content never leaves a note
\* that had content chunks without any: when every new embedding failed, the
\* chunks stored before are still there.
C30_ContentChunksSurvive ==
    [][\A c \in Updates :
          (/\ upd[c].pc = "summary" /\ upd'[c].pc = "done"
           /\ Given(upd[c].content)
           /\ RowsOf("content") # {})
          => {r \in chunk_tbl' : r.chunk_type = "content"} # {}]_vars

-----------------------------------------------------------------------------
(* Properties of the retrieval step.                                       *)

\* C17: the chunks a turn retrieved are at most 5, all different, and each
\* belongs to a note of the turn's user that is not archived, whatever the
\* entity filters are.
C17_AtMostFiveOwnChunks ==
    \A t \in Turns :
        /\ Len(turn[t].chunks) <= 5
        /\ \A j, k \in 1..Len(turn[t].chunks) :
              turn[t].chunks[j] = turn[t].chunks[k] => j = k
        /\ \A k \in 1..Len(turn[t].chunks) :
              \E c \in NoteChunks, n \in Notes :
                  /\ c.id = turn[t].chunks[k]
                  /\ n.id = c.note_id
                  /\ n.user_id = turn[t].user_id
                  /\ ~n.is_archived

\* C17 witness: a turn of user 1, who has six chunks in notes that are not
\* archived, got five of them, the closer chunks of the archived note and
\* of user 2 left out; and a turn of user 1 that asked for user 2's audio
\* file got nothing
C17_Witness ==
    \E t, u \in Turns :
        /\ Retrieved(t) /\ turn[t].user_id = 1 /\ turn[t].message = "budget"
        /\ Len(turn[t].chunks) = 5
        /\ Retrieved(u) /\ turn[u].user_id = 1 /\ turn[u].entities.audio_ids = {13}
        /\ turn[u].embed_calls = 1 /\ turn[u].chunks = <<>>

-----------------------------------------------------------------------------
(* RAGContextService.build_context, called with any ranked list of chunks  *)
(* and any token budget.                                                   *)

MaxRanked == 3

\* the ranked lists: up to MaxRanked different chunks in any order
RankedLists ==
    LET ids == {c.id : c \in NoteChunks}
    IN  UNION {{r \in [1..n -> ids] : \A j, k \in 1..n : r[j] = r[k] => j = k}
               : n \in 0..MaxRanked}

\* the values of max_tokens: nothing fits, one long block fits exactly, two
\* short blocks fit exactly, a long and a short block fit exactly, the default
TokenBudgets == {0, 765, 780, 1155, max_tokens}

ContextCalled(chunks, tokens) ==
    [pc |-> "called", fn |-> "build_context", chunks |-> chunks, tokens |-> tokens]

\* build_context, lines 73-95: from the call to the returned string
BuildContext ==
    /\ call.pc = "called"
    /\ call.fn = "build_context"
    /\ LET parts == build_context(call.chunks, call.tokens)
       IN  call' = [pc |-> "returned", fn |-> "build_context",
                    chunks |-> call.chunks, tokens |-> call.tokens,
                    context_parts |-> parts, length |-> ContextLength(parts)]
    /\ UNCHANGED <<turnVars, limiterVars, job_run, emb, note_tbl, chunk_tbl, upd>>

InitContext ==
    /\ ChatInit /\ RateLimiterIdle /\ JobsIdle /\ EmbIdle /\ NotesIdle
    /\ \E chunks \in RankedLists, tokens \in TokenBudgets :
           call = ContextCalled(chunks, tokens)

NextContext == BuildContext

SpecContext == InitContext /\ [][NextContext]_vars

\* C18: the string build_context returns is at most 4 times the token budget
\* long, the separators between the blocks counted, and it is made of the
\* first chunks of the list, in their order.
C18_WithinBudget ==
    (call.pc = "returned" /\ call.fn = "build_context") =>
        /\ call.length <= 4 * call.tokens
        /\ Len(call.context_parts) <= Len(call.chunks)
        /\ \A k \in 1..Len(call.context_parts) : call.context_parts[k] = call.chunks[k]

-----------------------------------------------------------------------------
(* semantic_search_notes: the note similarity search over the stored       *)
(* chunks, similarities in hundredths.                                     *)

\* the similarity of the query to each stored chunk: those of the archived
\* note and of user 2's note are the highest
ChunkSimilarities ==
    {sim \in [{c.id : c \in NoteChunks} -> {20, similarity_threshold, 80, 90}] :
        \A id \in DOMAIN sim : sim[id] = 90 <=> id \in {107, 108}}

Thresholds == {0, similarity_threshold, similarity_threshold + 1, 100}
Limits == {0, 1, 2, 10}
SearchIn == {"content", "summary", "both"}

\* lines 723-741: the joined rows of the user's notes that are not archived,
\* of the chunk type asked for
SearchRows(user_id, search_in) ==
    {c \in NoteChunks :
        /\ NoteOf(c.note_id).user_id = user_id
        /\ ~NoteOf(c.note_id).is_archived
        /\ search_in = "content" => c.chunk_type = "content"
        /\ search_in = "summary" => c.chunk_type = "summary"}

\* a grouping that keeps the lowest similarity of each note
GroupByMin(sim, rows) ==
    [n \in {c.note_id : c \in rows} |->
        LET S == {sim[c.id] : c \in {r \in rows : r.note_id = n}}
        IN  CHOOSE x \in S : \A y \in S : x <= y]

\* lines 724-726, 744: GROUP BY note_id with max(1 - cosine_distance)
GroupByNote(sim, rows) ==
    [n \in {c.note_id : c \in rows} |->
        LET S == {sim[c.id] : c \in {r \in rows : r.note_id = n}}
        IN  CHOOSE x \in S : \A y \in S : y <= x]

\* lines 744-746: HAVING max >= similarity_threshold
Having(groups, threshold) == {n \in DOMAIN groups : groups[n] >= threshold}

\* a sequence of different notes in descending order of similarity
Descending(groups, r) ==
    \A j, k \in 1..Len(r) :
        /\ r[j] = r[k] => j = k
        /\ j < k => groups[r[j]] >= groups[r[k]]

\* lines 746-751: ORDER BY max DESC LIMIT limit; notes of equal similarity
\* come in any order, and any of them may be the ones the limit keeps
OrderLimit(groups, ids, lim) ==
    LET n == Min(lim, Cardinality(ids))
    IN  {r \in [1..n -> ids] :
            /\ Descending(groups, r)
            /\ \A rest \in ids \ {r[k] : k \in 1..n} :
                   \A k \in 1..n : groups[r[k]] >= groups[rest]}

\* lines 765-779: the notes are read again by id, in any order, and sorted
\* by their similarity, highest first
SortByScore(groups, chunk_results) ==
    LET ids == {chunk_results[k] : k \in 1..Len(chunk_results)}
    IN  {[k \in 1..Len(r) |-> [note_id |-> r[k], similarity_score |-> groups[r[k]]]]
         : r \in {q \in [1..Len(chunk_results) -> ids] : Descending(groups, q)}}

\* semantic_search_notes, lines 718-789: the result lists it may return
semantic_search_notes(sim, user_id, search_in, threshold, lim) ==
    LET groups == GroupByNote(sim, SearchRows(user_id, search_in))
    IN  UNION {SortByScore(groups, chunk_results)
               : chunk_results \in OrderLimit(groups, Having(groups, threshold), lim)}

SearchCalled(sim, user_id, search_in, threshold, lim) ==
    [pc |-> "called", fn |-> "semantic_search_notes", sim |-> sim, user_id |-> user_id,
     search_in |-> search_in, similarity_threshold |-> threshold, limit |-> lim]

\* semantic_search_notes, lines 708-799: the query is embedded, or the call
\* answers with an error; then the search
SearchNotes(embedded) ==
    /\ call.pc = "called"
    /\ call.fn = "semantic_search_notes"
    /\ \E results \in IF embedded
                      THEN semantic_search_notes(call.sim, call.user_id, call.search_in,
                                                 call.similarity_threshold, call.limit)
                      ELSE {<<>>} :
           call' = [call EXCEPT !.pc = "returned"] @@
                   [success |-> embedded, results |-> results]
    /\ UNCHANGED <<turnVars, limiterVars, job_run, emb, note_tbl, chunk_tbl, upd>>

InitSearch ==
    /\ ChatInit /\ RateLimiterIdle /\ JobsIdle /\ EmbIdle /\ NotesIdle
    /\ \E sim \in ChunkSimilarities, user_id \in Users, search_in \in SearchIn,
          threshold \in Thresholds, lim \in Limits :
           call = SearchCalled(sim, user_id, search_in, threshold, lim)

NextSearch == \E embedded \in BOOLEAN : SearchNotes(embedded)

SpecSearch == InitSearch /\ [][NextSearch]_vars

\* the chunks of a note of the chunk type a search looks in
ChunksSearched(note_id, search_in) ==
    {c \in NoteChunks : /\ c.note_id = note_id
                        /\ search_in = "both" \/ c.chunk_type = search_in}

\* C19: a successful note similarity search returns at most limit results,
\* each a different note of the user that is not archived, scored with the
\* highest similarity of its chunks of the type searched, which is at least
\* the threshold; the results are in descending order of score; and the same
\* search with a higher threshold never returns more results.
C19_ThresholdMonotone ==
    (call.pc = "returned" /\ call.fn = "semantic_search_notes" /\ call.success) =>
        /\ Len(call.results) <= call.limit
        /\ \A j, k \in 1..Len(call.results) :
              /\ call.results[j].note_id = call.results[k].note_id => j = k
              /\ j < k => call.results[j].similarity_score >= call.results[k].similarity_score
        /\ \A k \in 1..Len(call.results) :
              LET r == call.results[k]
                  searched == ChunksSearched(r.note_id, call.search_in)
              IN  /\ \E n \in Notes : /\ n.id = r.note_id
                                      /\ n.user_id = call.user_id
                                      /\ ~n.is_archived
                  /\ r.similarity_score >= call.similarity_threshold
                  /\ \E c \in searched : call.sim[c.id] = r.similarity_score
                  /\ \A c \in searched : call.sim[c.id] <= r.similarity_score
        /\ \A higher \in Thresholds :
              higher >= call.similarity_threshold =>
                  \A fewer \in semantic_search_notes(call.sim, call.user_id, call.search_in,
                                                     higher, call.limit) :
                      Len(fewer) <= Len(call.results)

\* C19 witness: a search of user 1 with the default threshold returned both
\* notes, the second scored exactly the threshold by its best chunk, and the
\* same search one hundredth higher returns one note only
C19_Witness ==
    /\ call.pc = "returned" /\ call.fn = "semantic_search_notes" /\ call.success
    /\ call.user_id = 1 /\ call.similarity_threshold = similarity_threshold
    /\ call.search_in = "both" /\ call.limit = 2
    /\ Len(call.results) = 2
    /\ call.results[1].similarity_score = 80
    /\ call.results[2].similarity_score = similarity_threshold
    /\ \A fewer \in semantic_search_notes(call.sim, call.user_id, call.search_in,
                                          similarity_threshold + 1, call.limit) :
           Len(fewer) = 1

-----------------------------------------------------------------------------
(* chunk_text: a text is cut into overlapping chunks.  A text is given by  *)
(* its length and the places of its newlines, of its ". " sentence ends    *)
(* and of its spaces; every other character is a letter.  Positions are    *)
(* those of the trimmed text, which starts and ends with a letter.         *)

_RECOMMENDED_MAX_CHUNK_SIZE == 3000
\* the sentence end is looked for this far around the target end
BreakWindow == 50
\* the turns of the loop that are followed
MaxLoopTurns == 8

\* (chunk_size, chunk_overlap): the values every caller passes, a small
\* chunk with a small and with a large overlap, and values above the limits
ChunkParams == {<<1500, 200>>, <<100, 20>>, <<100, 60>>, <<5000, 5000>>}

\* a limit that halves every chunk_size
ClampSizeHalved(chunk_size) == chunk_size \div 2

\* the effective chunk_size, lines 473-481
ClampSize(chunk_size) ==
    IF chunk_size > _RECOMMENDED_MAX_CHUNK_SIZE
    THEN _RECOMMENDED_MAX_CHUNK_SIZE ELSE chunk_size

\* the effective chunk_overlap, lines 483-489
ClampOverlap(chunk_size, chunk_overlap) ==
    IF chunk_overlap >= chunk_size THEN chunk_size \div 5 ELSE chunk_overlap

PlainText(len) == [len |-> len, newlines |-> {}, dots |-> {}, spaces |-> {}]

\* the texts chunked with an effective chunk size: shorter than a chunk,
\* a little longer and three chunks long; without a sentence end, with one
\* or two newlines or ". " around the first target end, and with a long
\* run of spaces or of newlines in the middle
ChunkTexts(size) ==
    LET marks == {size - 49, size - 9, size - 1, size + 30}
        pairs == {m \in SUBSET marks : Cardinality(m) \in {1, 2}}
        lens == {size - 20, size + 20, 3 * size}
    IN  {PlainText(len) : len \in lens}
        \cup {[PlainText(len) EXCEPT !.newlines = m] :
                len \in lens \ {size - 20}, m \in pairs}
        \cup {[PlainText(len) EXCEPT !.dots = m] :
                len \in lens \ {size - 20}, m \in pairs}
        \cup {[PlainText(3 * size) EXCEPT !.spaces = (size - 60)..(2 * size + 39)],
              [PlainText(3 * size) EXCEPT !.newlines = (size - 60)..(2 * size + 39)]}

Char(text, p) ==
    IF p \in text.newlines THEN "\n"
    ELSE IF p \in text.dots THEN "."
    ELSE IF p \in text.spaces \/ (p - 1) \in text.dots THEN " "
    ELSE "x"

\* a slice bound as the language reads it: a negative bound counts from
\* the end, and bounds outside the text are clipped
SliceBound(text, b) ==
    IF b < 0 THEN Max(text.len + b, 0) ELSE Min(b, text.len)

\* text[a:b] == ending
SliceIs(text, a, b, ending) ==
    LET lo == SliceBound(text, a)
        hi == SliceBound(text, b)
    IN  /\ hi - lo = Len(ending)
        /\ \A k \in 1..Len(ending) : Char(text, lo + k - 1) = ending[k]

\* text[a:b].strip() is not empty
NotBlank(text, a, b) ==
    \E p \in SliceBound(text, a)..(SliceBound(text, b) - 1) :
        Char(text, p) \notin {" ", "\n"}

sentence_endings == <<<<".", " ">>, <<"!", " ">>, <<"?", " ">>, <<"\n", "\n">>, <<"\n">>>>

\* lines 507-510: the break after the first sentence ending found at i, or
\* 0 when there is none
BreakAt(text, i) ==
    LET found == {e \in 1..Len(sentence_endings) :
                     SliceIs(text, i, i + Len(sentence_endings[e]), sentence_endings[e])}
    IN  IF found = {} THEN 0
        ELSE i + Len(sentence_endings[CHOOSE e \in found : \A f \in found : e <= f])

\* lines 506-512: i runs down to lowest and stops at the first break that
\* differs from end
RECURSIVE ScanForBreak(_, _, _, _)
ScanForBreak(text, end, i, lowest) ==
    IF i < lowest THEN end
    ELSE IF BreakAt(text, i) \notin {0, end} THEN BreakAt(text, i)
    ELSE ScanForBreak(text, end, i - 1, lowest)

\* lines 504-514: range(min(end + 50, len(text)) - 1, end - 50, -1)
BestBreak(text, end) ==
    ScanForBreak(text, end, Min(end + BreakWindow, text.len) - 1, end - BreakWindow + 1)

\* "Sentence one. Sentence two. Sentence three."
ThreeSentences == [len |-> 43, newlines |-> {}, dots |-> {12, 26}, spaces |-> {8, 22, 36}]

ChunkCalled(text, chunk_size, chunk_overlap) ==
    [pc |-> "called", fn |-> "chunk_text", text |-> text,
     requested_size |-> chunk_size,
     chunk_size |-> chunk_size, chunk_overlap |-> chunk_overlap,
     start |-> 0, end |-> 0, chunks |-> <<>>, turns |-> 0]

\* chunk_text, lines 473-494: the limits on the sizes, then the loop starts
ChunkBegin ==
    /\ call.pc = "called"
    /\ call.fn = "chunk_text"
    /\ LET size == ClampSize(call.chunk_size)
       IN  call' = [call EXCEPT !.pc = "loop", !.chunk_size = size,
                                !.chunk_overlap = ClampOverlap(size, call.chunk_overlap)]
    /\ UNCHANGED <<turnVars, limiterVars, job_run, emb, note_tbl, chunk_tbl, upd>>

\* chunk_text, lines 496-537: one turn of the loop
ChunkLoop ==
    /\ call.pc = "loop"
    /\ call.fn = "chunk_text"
    /\ call.start < call.text.len
    /\ call.turns < MaxLoopTurns
    /\ LET text == call.text
           target == call.start + call.chunk_size
           end == IF target < text.len THEN BestBreak(text, target) ELSE text.len
           chunks == IF NotBlank(text, call.start, end)
                     THEN Append(call.chunks, [chunk_index |-> Len(call.chunks),
                                               start_char |-> call.start,
                                               end_char |-> end])
                     ELSE call.chunks
           start == end - call.chunk_overlap
       IN  call' = [call EXCEPT !.chunks = chunks, !.start = start, !.end = end,
                                !.turns = @ + 1,
                                !.pc = IF start >= text.len \/ end = text.len
                                       THEN "returned" ELSE "loop"]
    /\ UNCHANGED <<turnVars, limiterVars, job_run, emb, note_tbl, chunk_tbl, upd>>

InitChunk ==
    /\ ChatInit /\ RateLimiterIdle /\ JobsIdle /\ EmbIdle /\ NotesIdle
    /\ \/ \E params \in ChunkParams :
          \E text \in ChunkTexts(ClampSize(params[1])) :
              call = ChunkCalled(text, params[1], params[2])
       \/ call = ChunkCalled(ThreeSentences, 15, 5)

NextChunk == ChunkBegin \/ ChunkLoop

SpecChunk == InitChunk /\ [][NextChunk]_vars

\* the chunks cover the text: the first starts at 0, the last ends at the
\* end of the text, each is a stretch of the text that is not empty, and each
\* starts at or before the end of the one before it, or after a stretch of
\* whitespace only
CoversText(text, chunks) ==
    /\ chunks # <<>>
    /\ chunks[1].start_char = 0
    /\ chunks[Len(chunks)].end_char = text.len
    /\ \A k \in 1..Len(chunks) :
          /\ 0 <= chunks[k].start_char
          /\ chunks[k].start_char < chunks[k].end_char
          /\ chunks[k].end_char <= text.len
    /\ \A k \in 2..Len(chunks) :
          \/ chunks[k].start_char <= chunks[k - 1].end_char
          \/ ~NotBlank(text, chunks[k - 1].end_char, chunks[k].start_char)

\* C20: for any text that is not empty and any chunk size and overlap,
\* chunk_text returns chunks that cover the trimmed text end to end: the
\* first starts at 0, every next one starts at or before the end of the one
\* before it and not below 0, the last ends at the length of the text, every
\* chunk has 0 <= start_char < end_char <= length, and only stretches of
\* whitespace are left without a chunk.
\* It returns such chunks when it returns, and it does return: a turn of
\* the loop never ends where it started with the loop going on, which would
\* repeat for ever.
C20_ChunksCoverText ==
    [][/\ call'.pc = "returned" => CoversText(call'.text, call'.chunks)
       /\ (call.pc = "loop" /\ call'.pc = "loop") => call'.start # call.start]_vars

\* what holds of chunk_text in every case: the chunks it returns cover the
\* text
ReturnedChunksCover ==
    call.pc = "returned" => CoversText(call.text, call.chunks)

\* a call that returned several chunks, cut at a sentence end
ReturnedSeveralChunks ==
    /\ call.pc = "returned" /\ call.fn = "chunk_text"
    /\ Len(call.chunks) >= 3
    /\ call.chunks[1].end_char # call.chunk_size

\* the only chunk of a text: all of it
WholeText(text) == <<[chunk_index |-> 0, start_char |-> 0, end_char |-> text.len]>>

C22_CursorAdvances ==
    [][(call.pc = "loop" /\ call'.pc = "loop") => call'.start > call.start]_vars

\* the break after the nearest sentence ending at or before target, looked
\* for no further back than BreakWindow; target when there is none
RECURSIVE NearestBreakBack(_, _, _)
NearestBreakBack(text, target, i) ==
    IF i <= target - BreakWindow THEN target
    ELSE IF BreakAt(text, i) # 0 /\ BreakAt(text, i) <= target THEN BreakAt(text, i)
    ELSE NearestBreakBack(text, target, i - 1)

\* C23: in a turn whose target end, start + chunk_size, is inside the text,
\* the chunk ends just after the nearest sentence ending found going back
\* from the target end, or at the target end when there is none; so no chunk
\* ends beyond start + chunk_size.
C23_CutAtNearestBack ==
    [][(call.pc = "loop" /\ call'.turns = call.turns + 1
          /\ call.start + call.chunk_size < call.text.len) =>
            /\ call'.end <= call.start + call.chunk_size
            /\ call'.end = NearestBreakBack(call.text, call.start + call.chunk_size,
                                            call.start + call.chunk_size - 1)]_vars

-----------------------------------------------------------------------------
(* Properties of the outbound embedding requests.                          *)

\* the threads whose request is sent and not yet answered
InFlight == {i \in Threads : thr[i].pc = "in_flight"}

\* C24: at any time at most one embed_content request is sent and not yet
\* answered, however the threads calling _embed_content_with_retry interleave.
C24_OneRequestInFlight == Cardinality(InFlight) <= 1

\* the request generate_embedding sends for the text at idx, if any
OwnRequests(texts, idx) ==
    IF texts[idx].len = 0 \/ texts[idx].blank THEN <<>>
    ELSE << <<Item(idx, Min(texts[idx].len, _MAX_CHARS_PER_EMBEDDING), FALSE)>> >>

\* C25: when the request for a batch of several texts fails, nothing is
\* written for it; then the texts of that batch, each in its turn and no
\* other, go through generate_embedding, whose result (a vector of that text
\* or None) becomes the entry of that text, every other entry staying as it
\* was; after the last of them the loop goes on with the next batch, and the
\* call returns only when every batch has been gone through.
C25_FailedBatchFallsBack ==
    [][/\ (emb.pc = "loop" /\ emb'.pc = "fallback") =>
              /\ Len(emb.batches[emb.b]) > 1
              /\ emb'.embeddings = emb.embeddings
              /\ emb'.b = emb.b /\ emb'.k = 1
       /\ emb.pc = "fallback" =>
              LET batch_indices == emb.batches[emb.b]
                  idx == batch_indices[emb.k]
              IN  /\ emb.k <= Len(batch_indices)
                  /\ \A i \in 1..Len(emb.texts) :
                        i # idx => emb'.embeddings[i] = emb.embeddings[i]
                  /\ emb'.embeddings[idx] \in
                        {NoVector, Vector(idx, Min(emb.texts[idx].len,
                                                   _MAX_CHARS_PER_EMBEDDING))}
                  /\ emb'.requests \in {emb.requests,
                                        emb.requests \o OwnRequests(emb.texts, idx)}
                  /\ IF emb.k < Len(batch_indices)
                     THEN emb'.pc = "fallback" /\ emb'.b = emb.b /\ emb'.k = emb.k + 1
                     ELSE emb'.pc = "loop" /\ emb'.b = emb.b + 1
       /\ (emb.pc = "loop" /\ emb'.pc = "returned") => emb.b = Len(emb.batches) + 1]_vars

\* C25 witness: the first text was embedded alone; the request for the
\* second and third failed; the fallback got a vector for the second and
\* none for the third; the entry of the first text is as it was
C25_Witness ==
    /\ emb.pc = "returned"
    /\ emb.batches = << <<1>>, <<2, 3>> >>
    /\ Len(emb.requests) = 4
    /\ Len(emb.requests[2]) = 2
    /\ emb.requests[3] = <<Item(2, emb.texts[2].len, FALSE)>>
    /\ emb.requests[4] = <<Item(3, emb.texts[3].len, FALSE)>>
    /\ emb.embeddings[1] = Vector(1, _MAX_CHARS_PER_EMBEDDING)
    /\ emb.embeddings[2] = Vector(2, emb.texts[2].len)
    /\ emb.embeddings[3] = NoVector

\* the batches one after the other
RECURSIVE Flatten(_)
Flatten(batches) ==
    IF batches = <<>> THEN <<>> ELSE Head(batches) \o Flatten(Tail(batches))

\* len(text) // 4 + 1, summed over the texts of a batch
RECURSIVE TokensOf(_, _)
TokensOf(texts, batch) ==
    IF batch = <<>> THEN 0
    ELSE texts[Head(batch)].len \div 4 + 1 + TokensOf(texts, Tail(batch))

\* the batches are runs of consecutive indices that make up 1..n in order,
\* none empty, none longer than max_batch_size, none of several texts above
\* the token ceiling, and a text above the token ceiling is alone
PartitionInOrder(texts, batches, max_batch_size) ==
    /\ Flatten(batches) = [i \in 1..Len(texts) |-> i]
    /\ \A b \in 1..Len(batches) :
          /\ batches[b] # <<>>
          /\ Len(batches[b]) <= max_batch_size
          /\ Len(batches[b]) > 1 => TokensOf(texts, batches[b]) <= _MAX_TOKENS_PER_BATCH
          /\ \A p \in 1..Len(batches[b]) :
                TokensOf(texts, <<batches[b][p]>>) > _MAX_TOKENS_PER_BATCH
                    => Len(batches[b]) = 1

\* C26: for the texts of a call and every batch size from 1 up, the batches
\* of _create_token_aware_batches are such a partition; the call works with
\* the batches for _EMBEDDING_BATCH_SIZE.
C26_BatchesPartitionInOrder ==
    EmbedRunning =>
        /\ emb.texts # <<>> =>
               emb.batches = _create_token_aware_batches(emb.texts, _EMBEDDING_BATCH_SIZE)
        /\ \A max_batch_size \in 1..MaxTexts :
               PartitionInOrder(emb.texts,
                                _create_token_aware_batches(emb.texts, max_batch_size),
                                max_batch_size)

\* C26 witness: two texts of 10001 tokens each, which the token ceiling keeps
\* apart, then a short text that joins the second
C26_Witness ==
    /\ EmbedRunning
    /\ Len(emb.texts) = 3
    /\ emb.texts[1].len = 40000 /\ emb.texts[2].len = 40000 /\ emb.texts[3].len = 5
    /\ emb.batches = << <<1>>, <<2, 3>> >>

\* C27: generate_embeddings_batch returns, whatever the provider answers;
\* for N texts in B batches it has by then sent at most
\* (_EMBEDDING_MAX_RETRIES + 1) * (B + N) requests and slept at most
\* _EMBEDDING_MAX_RETRIES * (B + N) times between attempts.
C27_TerminatesWithinBound ==
    /\ <>(emb.pc = "returned")
    /\ [](EmbedRunning =>
            /\ emb.outbound <= (_EMBEDDING_MAX_RETRIES + 1)
                                * (Len(emb.batches) + Len(emb.texts))
            /\ emb.backoffs <= _EMBEDDING_MAX_RETRIES
                                * (Len(emb.batches) + Len(emb.texts)))

\* C27 witness: two texts in one batch, every request failed after the last
\* retry, the batch request and the two of the fallback: the bound is met
C27_Witness ==
    /\ emb.pc = "returned"
    /\ Len(emb.texts) = 2 /\ Len(emb.batches) = 1
    /\ emb.outbound = (_EMBEDDING_MAX_RETRIES + 1) * 3
    /\ emb.embeddings = <<NoVector, NoVector>>

-----------------------------------------------------------------------------
(* Properties of the search handler.                                       *)

\* C28: a search turn answers 'not found' only when the references it
\* returns, those of the audio files and those of the notes, are both empty.
C28_NotFoundMeansNoReference ==
    \A t \in Turns :
        (Handled(t) /\ turn[t].intent = "search" /\ turn[t].text = "search_not_found") =>
            /\ turn[t].audio_files = <<>>
            /\ turn[t].notes = <<>>

\* ---------------------------------------------------------------------------
\* Task jobs: create_and_queue_job (the request) against handle_chatbot_message
\* (the worker process).  Each commits through its own database session.
\* ---------------------------------------------------------------------------

MaxJobs == 2

JobIds == 1..MaxJobs

\* the order the lifecycle of a task job is meant to follow
StatusRank(status) ==
    CASE status = "none" -> 0
      [] status = "pending" -> 1
      [] status = "queued" -> 2
      [] status = "processing" -> 3
      [] OTHER -> 4

\* nothing has run yet: no row, the request and the worker have not started
JobsInit ==
    job_run = [j \in JobIds |->
                 [api |-> "insert", worker |-> "waiting", status |-> "none",
                  in_queue |-> FALSE, started |-> FALSE]]

\* the row is inserted with status "pending" and committed; a failure is
\* rolled back and answered with an error
InsertJob(j, db_ok) ==
    /\ j \in DOMAIN job_run
    /\ job_run[j].api = "insert"
    /\ job_run' = [job_run EXCEPT ![j] =
                     IF db_ok THEN [@ EXCEPT !.status = "pending", !.api = "enqueue"]
                              ELSE [@ EXCEPT !.api = "returned"]]
    /\ UNCHANGED <<turnVars, limiterVars, emb, note_tbl, chunk_tbl, upd, call>>

\* arq_pool.enqueue_job: from here on the worker can pick the job up
EnqueueJob(j, ok) ==
    /\ j \in DOMAIN job_run
    /\ job_run[j].api = "enqueue"
    /\ job_run' = [job_run EXCEPT ![j] =
                     IF ok THEN [@ EXCEPT !.in_queue = TRUE, !.api = "set_queued"]
                           ELSE [@ EXCEPT !.api = "mark_failed"]]
    /\ UNCHANGED <<turnVars, limiterVars, emb, note_tbl, chunk_tbl, upd, call>>

\* new_job.status = "queued"; db.commit(): an UPDATE by primary key, whatever
\* the row holds by now
SetQueued(j, db_ok) ==
    /\ j \in DOMAIN job_run
    /\ job_run[j].api = "set_queued"
    /\ job_run' = [job_run EXCEPT ![j] =
                     IF db_ok THEN [@ EXCEPT !.status = "queued", !.api = "returned"]
                              ELSE [@ EXCEPT !.api = "mark_failed"]]
    /\ UNCHANGED <<turnVars, limiterVars, emb, note_tbl, chunk_tbl, upd, call>>

\* the except branch of the request: rollback, then status "failed" if that
\* commit goes through
MarkFailed(j, db_ok) ==
    /\ j \in DOMAIN job_run
    /\ job_run[j].api = "mark_failed"
    /\ job_run' = [job_run EXCEPT ![j] =
                     IF db_ok THEN [@ EXCEPT !.status = "failed", !.api = "returned"]
                              ELSE [@ EXCEPT !.api = "returned"]]
    /\ UNCHANGED <<turnVars, limiterVars, emb, note_tbl, chunk_tbl, upd, call>>

\* the worker takes the job off the queue, reads its row and commits
\* "processing"
WorkerStart(j, db_ok) ==
    /\ j \in DOMAIN job_run
    /\ job_run[j].in_queue
    /\ job_run[j].worker = "waiting"
    /\ job_run[j].status # "none"
    /\ job_run' = [job_run EXCEPT ![j] =
                     IF db_ok
                     THEN [@ EXCEPT !.in_queue = FALSE, !.started = TRUE,
                                    !.status = "processing", !.worker = "process"]
                     ELSE [@ EXCEPT !.in_queue = FALSE, !.started = TRUE,
                                    !.worker = "except"]]
    /\ UNCHANGED <<turnVars, limiterVars, emb, note_tbl, chunk_tbl, upd, call>>

\* process_message returns and "completed" is committed, or either of the
\* two raises
WorkerProcess(j, answered, db_ok) ==
    /\ j \in DOMAIN job_run
    /\ job_run[j].worker = "process"
    /\ job_run' = [job_run EXCEPT ![j] =
                     IF answered /\ db_ok
                     THEN [@ EXCEPT !.status = "completed", !.worker = "done"]
                     ELSE [@ EXCEPT !.worker = "except"]]
    /\ UNCHANGED <<turnVars, limiterVars, emb, note_tbl, chunk_tbl, upd, call>>

\* the except branch of the worker: rollback, then status "failed" if that
\* commit goes through
WorkerExcept(j, db_ok) ==
    /\ j \in DOMAIN job_run
    /\ job_run[j].worker = "except"
    /\ job_run' = [job_run EXCEPT ![j] =
                     IF db_ok THEN [@ EXCEPT !.status = "failed", !.worker = "done"]
                              ELSE [@ EXCEPT !.worker = "done"]]
    /\ UNCHANGED <<turnVars, limiterVars, emb, note_tbl, chunk_tbl, upd, call>>

InitJobs ==
    /\ ChatInit /\ RateLimiterIdle /\ EmbIdle /\ NotesIdle /\ CallIdle
    /\ JobsInit

NextJobs ==
    \E j \in JobIds :
       \/ \E db_ok \in BOOLEAN : InsertJob(j, db_ok)
       \/ \E ok \in BOOLEAN : EnqueueJob(j, ok)
       \/ \E db_ok \in BOOLEAN : SetQueued(j, db_ok)
       \/ \E db_ok \in BOOLEAN : MarkFailed(j, db_ok)
       \/ \E db_ok \in BOOLEAN : WorkerStart(j, db_ok)
       \/ \E answered \in BOOLEAN, db_ok \in BOOLEAN : WorkerProcess(j, answered, db_ok)
       \/ \E db_ok \in BOOLEAN : WorkerExcept(j, db_ok)

SpecJobs == InitJobs /\ [][NextJobs]_vars

\* C29: the status of a task job only moves forward (pending, queued,
\* processing, then completed or failed), so a status the worker wrote is
\* never replaced by "queued"; and once the request and the worker are both
\* through, a job the worker started is completed or failed.
C29_StatusOnlyMovesForward ==
    [][\A j \in JobIds :
          /\ job_run'[j].status # job_run[j].status
                => StatusRank(job_run'[j].status) > StatusRank(job_run[j].status)
          /\ (job_run'[j].started /\ job_run'[j].worker = "done"
                  /\ job_run'[j].api = "returned")
                => job_run'[j].status \in {"completed", "failed"}]_vars

====
